---------------------------- MODULE Spec2Model ----------------------------
(***************************************************************************)
(* A model of geofront-cli: the session client (geofrontcli/client.py),    *)
(* the authorize/authenticate commands (geofrontcli/cli.py), the port-map  *)
(* store and the tunnel pipe (geofrontcli/proxy.py) and the configuration  *)
(* search path (dirspec/basedir.py).                                       *)
(*                                                                         *)
(* Strings that the code parses or formats are sequences of one-character  *)
(* strings, so that splitting, stripping, int() and str.format are         *)
(* computed and not assumed.                                               *)
(***************************************************************************)
EXTENDS Integers, Sequences, FiniteSets, TLC

VARIABLES
    \* ---- one HTTP exchange of the session client (client.py) ----
    resp,        \* the server's response to the request under study
    rpc,         \* "start" | "requested" | "authorized" | "off"
    reqResult,   \* what Client.request did with resp
    authResult,  \* what Client.authorize did with resp
    store,       \* the credential store's token for server_url; 0: none
    \* ---- the authorize command (cli.py) ----
    cpc,         \* where the command is; "off" when it is not run
    debug,       \* args.debug
    nextToken,   \* the next fresh token id (uuid.uuid1())
    raisedKind,  \* the exception that left the command, "" if none
    printed,     \* the kinds of message the command has printed
    posts,       \* authorize POSTs sent by this invocation
    reauths,     \* re-authentications after an expired-session failure
    remoteErrSeen,   \* an authorize call of this invocation raised RemoteError
    retriedAfterRemoteErr,  \* ... and another authorize POST was sent after it
    ceremonyDone,    \* the token ids whose authentication the server has completed
    identified,  \* the token ids for which client.identity has returned
    rejected,    \* the stored token ids (0: none) authorize failed on with a TokenIdError
    command,     \* the command main runs: "off" | "authorize" | "ssh" | "scp"
    argUser,     \* the user of the remote argument 'user@alias'; <<>>: none given
    tunnel,      \* args.tunnel
    started,     \* what the command has started: "" | "ssh" | "scp" | "tunnel"
    \* ---- the port-map store (proxy.py, dirspec/basedir.py) ----
    cfgDir,      \* per directory of the search path: <dir>/geofront-cli exists
    file,        \* per directory: its proxyports.csv, [present, rows]
    ppc,         \* per invocation of get_port_for_remote: where it is
    pkey,        \* per invocation: the key it was called with
    pdata,       \* per invocation: its local dict, as ordered items
    pport,       \* per invocation: the port it allocated or found; 0: none
    calls,       \* per process: calls of get_port_for_remote begun
    history,     \* the finished calls, in order of return
    prevHome,    \* the table at the save location before the latest save
    \* ---- the configuration search path (dirspec/basedir.py) ----
    environ,     \* XDG_CONFIG_HOME and XDG_CONFIG_DIRS: [present, text] each
    existing,    \* the paths for which os.path.exists is true
    lpc,         \* load_config_paths: "off" | "start" | "done"
    configPaths, \* the paths load_config_paths has yielded, in order
    \* ---- the tunnel pipe (proxy.py) ----
    vpc,             \* serve_proxy: "off" | "enter" | "serving" | "await_pipe" | "exited"
    pipe_task,       \* the task running pipe(): [pc, must_cancel, outcome]
    subproc_task,    \* the task running handle_subproc()
    ssh_reader_task, \* the task running handle_ssh_sock()
    proc,            \* the SSH subprocess: "none" | "running" | "exited"
    local_sock,      \* "none" | "open" | "listening" | "closed"
    ssh_sock,        \* "none" | "open" | "closed"
    peer,            \* the SSH client's end: "none" | "connected" | "closed"
    ws,              \* the WebSocket: "none" | "open" | "closed"
    session,         \* the ClientSession: "none" | "open" | "closed"
    loopStopped,     \* loop.stop() was called by pipe()
    logs,            \* the messages given to logger.error
    bind_port,       \* the port get_port_for_remote returned; 0: none
    inUse,           \* loopback ports bound by other processes
    binds,           \* calls of local_sock.bind
    portsTried,      \* the ports given to local_sock.bind
    wsConnects,      \* calls of session.ws_connect
    spawns,          \* subprocesses created
    upstream,        \* chunks handed to ws.send_bytes
    downstream,      \* chunks handed to loop.sock_sendall
    sockIn,          \* the bytes sock_recv has returned, in order
    wsOut,           \* the bytes sent to the WebSocket peer, in order
    wsIn,            \* the bytes of the BINARY messages received, in order
    sockOut,         \* the bytes written to the accepted socket, in order
    msg,             \* msg.data of the message sock_sendall is writing
    faults           \* the exceptions other than CancelledError raised so far

exchangeVars == <<resp, rpc, reqResult, authResult>>

cliVars == <<cpc, debug, nextToken, raisedKind, printed, posts, reauths,
             remoteErrSeen, retriedAfterRemoteErr, ceremonyDone,
             identified, rejected, command, argUser, tunnel, started>>

sshVars == <<command, argUser, tunnel, started>>

searchVars == <<environ, existing, lpc, configPaths>>

portVars == <<cfgDir, file, ppc, pkey, pdata, pport, calls, history, prevHome,
              searchVars>>

pipeVars == <<vpc, pipe_task, subproc_task, ssh_reader_task, proc, local_sock,
              ssh_sock, peer, ws, session, loopStopped, logs, bind_port, inUse,
              binds, portsTried, wsConnects, spawns, upstream, downstream,
              sockIn, wsOut, wsIn, sockOut, msg, faults>>

vars == <<resp, rpc, reqResult, authResult, store, cpc, debug, nextToken,
          raisedKind, printed, posts, reauths, remoteErrSeen,
          retriedAfterRemoteErr, ceremonyDone, identified, rejected, command, argUser,
          tunnel, started, cfgDir, file, ppc, pkey, pdata, pport, calls,
          history, prevHome, environ, existing, lpc, configPaths,
          vpc, pipe_task, subproc_task, ssh_reader_task,
          proc, local_sock, ssh_sock, peer, ws, session, loopStopped, logs,
          bind_port, inUse, binds, portsTried, wsConnects, spawns, upstream,
          downstream, sockIn, wsOut, wsIn, sockOut, msg, faults>>

-----------------------------------------------------------------------------
(* Characters and strings *)

Digits == <<"0", "1", "2", "3", "4", "5", "6", "7", "8", "9">>

IsDigit(c) == \E i \in 1..10 : Digits[i] = c

DigitVal(c) == (CHOOSE i \in 1..10 : Digits[i] = c) - 1

IsSpace(c) == c = " "

RECURSIVE LStrip(_)
LStrip(s) ==
    IF s # <<>> /\ IsSpace(Head(s)) THEN LStrip(Tail(s)) ELSE s

RECURSIVE RStrip(_)
RStrip(s) ==
    IF s # <<>> /\ IsSpace(s[Len(s)]) THEN RStrip(SubSeq(s, 1, Len(s) - 1)) ELSE s

\* str.strip() with no argument: whitespace removed at both ends.
Strip(s) == RStrip(LStrip(s))

\* str.split(sep): the pieces between the separators, empty pieces kept.
RECURSIVE SplitAcc(_, _, _)
SplitAcc(s, sep, cur) ==
    IF s = <<>> THEN <<cur>>
    ELSE IF Head(s) = sep THEN <<cur>> \o SplitAcc(Tail(s), sep, <<>>)
    ELSE SplitAcc(Tail(s), sep, Append(cur, Head(s)))

Split(s, sep) == SplitAcc(s, sep, <<>>)

RECURSIVE DigitsValue(_, _)
DigitsValue(s, acc) ==
    IF s = <<>> THEN acc ELSE DigitsValue(Tail(s), 10 * acc + DigitVal(Head(s)))

AllDigits(s) == s # <<>> /\ \A i \in 1..Len(s) : IsDigit(s[i])

\* int(text): surrounding whitespace is ignored, one sign is allowed, the
\* rest must be a non-empty run of digits; anything else is a ValueError.
ParseInt(text) ==
    LET t    == Strip(text)
        neg  == t # <<>> /\ Head(t) = "-"
        sgn  == t # <<>> /\ Head(t) \in {"-", "+"}
        body == IF sgn THEN Tail(t) ELSE t
    IN  IF AllDigits(body)
        THEN [ok |-> TRUE,
              val |-> IF neg THEN 0 - DigitsValue(body, 0) ELSE DigitsValue(body, 0)]
        ELSE [ok |-> FALSE, val |-> 0]

\* str(n) for a natural number.
RECURSIVE IntToStr(_)
IntToStr(n) ==
    IF n < 10 THEN <<Digits[n + 1]>>
    ELSE Append(IntToStr(n \div 10), Digits[(n % 10) + 1])

RECURSIVE Join(_, _)
Join(parts, sep) ==
    IF parts = <<>> THEN <<>>
    ELSE IF Len(parts) = 1 THEN parts[1]
    ELSE parts[1] \o <<sep>> \o Join(Tail(parts), sep)

-----------------------------------------------------------------------------
(* version.py *)

MIN_PROTOCOL_VERSION == <<0, 2, 0>>

MAX_PROTOCOL_VERSION == <<0, 4, 999>>

\* A <= that compares position by position (used to vary TupleLe).
TupleLeElementwise(a, b) ==
    /\ Len(a) = Len(b)
    /\ \A i \in 1..Len(a) : a[i] <= b[i]

\* Python's <= on tuples: the first differing position decides; a tuple
\* that is a proper prefix of the other is the smaller one.
RECURSIVE TupleLe(_, _)
TupleLe(a, b) ==
    IF a = <<>> THEN TRUE
    ELSE IF b = <<>> THEN FALSE
    ELSE IF Head(a) < Head(b) THEN TRUE
    ELSE IF Head(a) > Head(b) THEN FALSE
    ELSE TupleLe(Tail(a), Tail(b))


-----------------------------------------------------------------------------
(* client.py: responses, exceptions *)

NoRemote == [user |-> <<>>, host |-> <<>>, port |-> 0]

\* The remotes a server may report.
Remotes ==
    { [user |-> <<"root">>, host |-> <<"h1">>, port |-> 22],
      [user |-> <<"ann">>,  host |-> <<"h2">>, port |-> 2222] }

\* JSON bodies: a key that is absent is the empty string.
DictBody(e, s, r) == [isDict |-> TRUE, error |-> e, success |-> s, remote |-> r]

ListBody == [isDict |-> FALSE, error |-> "", success |-> "", remote |-> NoRemote]

ErrorCodes ==
    {"not-found", "token-not-found", "expired-token",
     "unfinished-authentication", "connection-failure"}

Bodies ==
    { DictBody(e, "", NoRemote) : e \in ErrorCodes }
    \cup { DictBody("", "authorized", r) : r \in Remotes }
    \cup { DictBody("", "pending", NoRemote), DictBody("", "", NoRemote), ListBody }

StatusCodes == {200, 202, 404, 410, 412, 500}

JsonType == <<"application/json">>

\* Content-Type header values; absent is present = FALSE.
ContentTypes ==
    { [present |-> TRUE,  text |-> JsonType],
      [present |-> TRUE,  text |-> <<"application/json", ";", " ", "charset=utf-8">>],
      [present |-> TRUE,  text |-> <<"text/plain">>],
      [present |-> FALSE, text |-> <<>>] }

\* The numbers a version component is drawn from.
VersionParts == {0, 2, 4, 999, 1000}

VersionText(a, b, c) == Join(<<IntToStr(a), IntToStr(b), IntToStr(c)>>, ".")

\* X-Geofront-Version header values: every triple over VersionParts, and
\* values that are no triple of naturals.
VersionHeaders ==
    { [present |-> TRUE, text |-> VersionText(a, b, c)] :
          a \in VersionParts, b \in VersionParts, c \in VersionParts }
    \cup { [present |-> FALSE, text |-> <<>>],
           [present |-> TRUE,  text |-> <<>>],
           [present |-> TRUE,  text |-> <<"0", ".", "3">>],
           [present |-> TRUE,  text |-> <<"0", ".", "3", ".", "0", ".", "1">>],
           [present |-> TRUE,  text |-> <<" ", "0", ".", "3", ".", "1", " ">>],
           [present |-> TRUE,  text |-> <<"0", ".", "3", ".", "-", "1">>],
           [present |-> TRUE,  text |-> <<"0", ".", "x", ".", "1">>],
           [present |-> TRUE,  text |-> <<"0", ".", ".", "3">>] }

Responses ==
    [version : VersionHeaders, code : StatusCodes, ctype : ContentTypes, body : Bodies]

\* The exception classes of client.py and their base classes.
Bases(cls) ==
    CASE cls = "NoTokenIdError"                -> {"TokenIdError", "AttributeError", "Exception"}
      [] cls = "ExpiredTokenIdError"           -> {"TokenIdError", "Exception"}
      [] cls = "UnfinishedAuthenticationError" -> {"TokenIdError", "Exception"}
      [] cls = "RemoteAliasError"              -> {"RemoteError", "LookupError", "Exception"}
      [] cls = "RemoteStateError"              -> {"RemoteError", "Exception"}
      [] OTHER                                 -> {"Exception"}

\* isinstance(e, cls) for an exception e of class kind: what "except cls" catches.
IsInstance(kind, cls) == kind = cls \/ cls \in Bases(kind)

\* parse_mimetype(content_type)[0]
ParseMimetype(text) == Strip(Split(text, ";")[1])

\* tuple(map(int, server_version.strip().split('.')))
ParseVersion(text) ==
    LET parts == Split(Strip(text), ".")
        ints  == [i \in 1..Len(parts) |-> ParseInt(parts[i])]
    IN  [ok  |-> \A i \in 1..Len(parts) : ints[i].ok,
         val |-> [i \in 1..Len(parts) |-> ints[i].val]]

\* MIN_PROTOCOL_VERSION <= server_version_info <= MAX_PROTOCOL_VERSION
VersionCompatible(info) ==
    TupleLe(MIN_PROTOCOL_VERSION, info) /\ TupleLe(info, MAX_PROTOCOL_VERSION)

\* The version check of Client.request: "" when the response passes, else
\* the exception raised.
VersionCheck(version) ==
    IF version.present /\ version.text # <<>>
    THEN LET v == ParseVersion(version.text)
         IN  IF ~v.ok THEN "ProtocolVersionError"
             ELSE IF ~VersionCompatible(v.val) THEN "ProtocolVersionError"
             ELSE ""
    ELSE "ProtocolVersionError"

ReqResult(raised, yielded, bodyRead) ==
    [raised |-> raised, yielded |-> yielded, bodyRead |-> bodyRead]

NoReqResult == ReqResult("", "", FALSE)

\* Client.request without the 410 expired-token case (used to vary Request).
RequestNo410(r) ==
    IF VersionCheck(r.version) # ""
    THEN ReqResult(VersionCheck(r.version), "", FALSE)
    ELSE IF ~r.ctype.present
    THEN ReqResult("AttributeError", "", FALSE)
    ELSE IF ParseMimetype(r.ctype.text) = JsonType /\ 400 <= r.code /\ r.code < 500
    THEN LET error == IF r.body.isDict THEN r.body.error ELSE ""
         IN  IF r.code = 404 /\ error = "token-not-found"
             THEN ReqResult("ExpiredTokenIdError", "", TRUE)
             ELSE IF r.code = 412 /\ error = "unfinished-authentication"
             THEN ReqResult("UnfinishedAuthenticationError", "", TRUE)
             ELSE ReqResult("", "buffered", TRUE)
    ELSE ReqResult("", "response", FALSE)

\* A request that maps the status before it checks the version (used to
\* vary Request).
RequestStatusFirst(r) ==
    IF r.ctype.present /\ ParseMimetype(r.ctype.text) = JsonType
       /\ 400 <= r.code /\ r.code < 500 /\ r.body.isDict
       /\ (\/ r.code = 404 /\ r.body.error = "token-not-found"
           \/ r.code = 410 /\ r.body.error = "expired-token")
    THEN ReqResult("ExpiredTokenIdError", "", TRUE)
    ELSE IF VersionCheck(r.version) # ""
    THEN ReqResult(VersionCheck(r.version), "", FALSE)
    ELSE IF ~r.ctype.present
    THEN ReqResult("AttributeError", "", FALSE)
    ELSE IF ParseMimetype(r.ctype.text) = JsonType /\ 400 <= r.code /\ r.code < 500
    THEN LET error == IF r.body.isDict THEN r.body.error ELSE ""
         IN  IF r.code = 412 /\ error = "unfinished-authentication"
             THEN ReqResult("UnfinishedAuthenticationError", "", TRUE)
             ELSE ReqResult("", "buffered", TRUE)
    ELSE ReqResult("", "response", FALSE)

\* Client.request up to its yield: the exception it raises, or what it
\* yields ("buffered": the 4xx JSON body already read; "response": the
\* response itself, body unread).
Request(r) ==
    IF VersionCheck(r.version) # ""
    THEN ReqResult(VersionCheck(r.version), "", FALSE)
    ELSE IF ~r.ctype.present
    THEN ReqResult("AttributeError", "", FALSE)
    ELSE IF ParseMimetype(r.ctype.text) = JsonType /\ 400 <= r.code /\ r.code < 500
    THEN LET error == IF r.body.isDict THEN r.body.error ELSE ""
         IN  IF \/ r.code = 404 /\ error = "token-not-found"
                \/ r.code = 410 /\ error = "expired-token"
             THEN ReqResult("ExpiredTokenIdError", "", TRUE)
             ELSE IF r.code = 412 /\ error = "unfinished-authentication"
             THEN ReqResult("UnfinishedAuthenticationError", "", TRUE)
             ELSE ReqResult("", "buffered", TRUE)
    ELSE ReqResult("", "response", FALSE)

\* A format that puts the host first (used to vary FormatRemote).
FormatRemoteSwapped(remote) ==
    remote.host \o <<"@">> \o remote.user \o <<":">> \o IntToStr(remote.port)

\* '{0[user]}@{0[host]}:{0[port]}'.format(remote)
FormatRemote(remote) ==
    remote.user \o <<"@">> \o remote.host \o <<":">> \o IntToStr(remote.port)

AuthResult(kind, value, sent, bodyRead) ==
    [kind |-> kind, value |-> value, sent |-> sent, bodyRead |-> bodyRead]

NoAuthResult == AuthResult("", <<>>, FALSE, FALSE)

\* Client.authorize(alias) with the credential store holding `token`
\* (0: none) and the server answering the POST with r. kind is "return" or
\* the class of the exception raised; sent tells whether the POST was made.
Authorize(token, r) ==
    IF token = 0 THEN AuthResult("NoTokenIdError", <<>>, FALSE, FALSE)
    ELSE LET q == Request(r)
         IN  IF q.raised # "" THEN AuthResult(q.raised, <<>>, TRUE, q.bodyRead)
             ELSE IF ParseMimetype(r.ctype.text) # JsonType
             THEN AuthResult("AssertionError", <<>>, TRUE, q.bodyRead)
             ELSE IF ~r.body.isDict
             THEN AuthResult("AttributeError", <<>>, TRUE, TRUE)
             ELSE IF r.code = 404 /\ r.body.error = "not-found"
             THEN AuthResult("RemoteAliasError", <<>>, TRUE, TRUE)
             ELSE IF r.code = 500 /\ r.body.error = "connection-failure"
             THEN AuthResult("RemoteStateError", <<>>, TRUE, TRUE)
             ELSE IF r.code # 200
             THEN AuthResult("AssertionError", <<>>, TRUE, TRUE)
             ELSE IF r.body.success = ""
             THEN AuthResult("KeyError", <<>>, TRUE, TRUE)
             ELSE IF r.body.success # "authorized"
             THEN AuthResult("AssertionError", <<>>, TRUE, TRUE)
             ELSE AuthResult("return", FormatRemote(r.body.remote), TRUE, TRUE)

\* The answer of a property that reads the token after the request (used
\* to vary Identity).
IdentityRequestFirst(token, r) ==
    LET q == Request(r)
    IN  IF q.raised # "" THEN AuthResult(q.raised, <<>>, TRUE, q.bodyRead)
        ELSE IF token = 0 THEN AuthResult("NoTokenIdError", <<>>, TRUE, q.bodyRead)
        ELSE AuthResult("return", <<>>, TRUE, TRUE)

\* Client.identity with the credential store holding `token` (0: none) and
\* the server answering the GET with r: self.token_id is read while the
\* path is built, before the request.
Identity(token, r) ==
    IF token = 0 THEN AuthResult("NoTokenIdError", <<>>, FALSE, FALSE)
    ELSE LET q == Request(r)
         IN  IF q.raised # "" THEN AuthResult(q.raised, <<>>, TRUE, q.bodyRead)
             ELSE IF r.code # 200
             THEN AuthResult("AssertionError", <<>>, TRUE, q.bodyRead)
             ELSE IF ParseMimetype(r.ctype.text) # JsonType
             THEN AuthResult("AssertionError", <<>>, TRUE, q.bodyRead)
             ELSE IF ~r.body.isDict
             THEN AuthResult("TypeError", <<>>, TRUE, TRUE)
             ELSE IF r.body.error # "" \/ r.body.success # ""
             THEN AuthResult("KeyError", <<>>, TRUE, TRUE)
             ELSE AuthResult("return", <<>>, TRUE, TRUE)

\* Client.remotes, likewise: result.items() fails on a list, and fmt(remote)
\* on the string values of an error or success body.
RemotesOf(token, r) ==
    IF token = 0 THEN AuthResult("NoTokenIdError", <<>>, FALSE, FALSE)
    ELSE LET q == Request(r)
         IN  IF q.raised # "" THEN AuthResult(q.raised, <<>>, TRUE, q.bodyRead)
             ELSE IF r.code # 200
             THEN AuthResult("AssertionError", <<>>, TRUE, q.bodyRead)
             ELSE IF ParseMimetype(r.ctype.text) # JsonType
             THEN AuthResult("AssertionError", <<>>, TRUE, q.bodyRead)
             ELSE IF ~r.body.isDict
             THEN AuthResult("AttributeError", <<>>, TRUE, TRUE)
             ELSE IF r.body.error # "" \/ r.body.success # ""
             THEN AuthResult("TypeError", <<>>, TRUE, TRUE)
             ELSE AuthResult("return", <<>>, TRUE, TRUE)

\* An authenticate that stores the token before it sends the PUT (used to
\* vary Authenticate).
AuthenticateStoresFirst(token, fresh, r, blockRaises) ==
    LET q == Request(r)
    IN  [token |-> fresh,
         kind  |-> IF q.raised # "" THEN q.raised
                   ELSE IF r.code # 202 THEN "AssertionError"
                   ELSE IF ~r.body.isDict THEN "TypeError"
                   ELSE IF r.body.error # "" \/ r.body.success # "" THEN "KeyError"
                   ELSE IF blockRaises THEN "BlockError"
                   ELSE "return"]

\* "with client.authenticate() as url: <block>" with the credential store
\* holding `token`, the fresh id `fresh` and the server answering the PUT
\* with r: the exception that leaves the statement ("return": none) and
\* the token the store holds afterwards.  "self.token_id = token_id" comes
\* after the with statement of the request, which every exception skips.
Authenticate(token, fresh, r, blockRaises) ==
    LET q == Request(r)
    IN  IF q.raised # "" THEN [kind |-> q.raised, token |-> token]
        ELSE IF r.code # 202 THEN [kind |-> "AssertionError", token |-> token]
        ELSE IF ~r.body.isDict THEN [kind |-> "TypeError", token |-> token]
        ELSE IF r.body.error # "" \/ r.body.success # ""
        THEN [kind |-> "KeyError", token |-> token]
        ELSE IF blockRaises THEN [kind |-> "BlockError", token |-> token]
        ELSE [kind |-> "return", token |-> fresh]

\* No response received yet.
NoResponse ==
    [version |-> [present |-> FALSE, text |-> <<>>], code |-> 0,
     ctype |-> [present |-> FALSE, text |-> <<>>], body |-> ListBody]

\* The authorize command is not run.
CliOff ==
    /\ cpc = "off" /\ debug = FALSE /\ nextToken = 1 /\ raisedKind = ""
    /\ printed = {} /\ posts = 0 /\ reauths = 0
    /\ remoteErrSeen = FALSE /\ retriedAfterRemoteErr = FALSE
    /\ ceremonyDone = {}
    /\ identified = {} /\ rejected = {}
    /\ command = "off" /\ argUser = <<>> /\ tunnel = FALSE /\ started = ""

\* "pipe_task = None", "subproc_task = None", "ssh_reader_task = None".
NoTask == [pc |-> "none", must_cancel |-> FALSE, outcome |-> "none", leaving |-> ""]

\* The tunnel pipe is not run.
PipeOff ==
    /\ vpc = "off"
    /\ pipe_task = NoTask /\ subproc_task = NoTask /\ ssh_reader_task = NoTask
    /\ proc = "none" /\ local_sock = "none" /\ ssh_sock = "none"
    /\ peer = "none" /\ ws = "none" /\ session = "none"
    /\ loopStopped = FALSE /\ logs = {} /\ bind_port = 0 /\ inUse = {}
    /\ binds = 0 /\ portsTried = {} /\ wsConnects = 0 /\ spawns = 0
    /\ upstream = 0 /\ downstream = 0
    /\ sockIn = <<>> /\ wsOut = <<>> /\ wsIn = <<>> /\ sockOut = <<>> /\ msg = <<>>
    /\ faults = {}

-----------------------------------------------------------------------------
(* proxy.py, dirspec/basedir.py: the port-map store *)

\* Model bounds: rows of a mapping file found at start, calls per process.
MaxRows == 1

MaxCalls == 2

\* get_xdg_config_dirs(): the user's config home, then XDG_CONFIG_DIRS.
SearchPath == <<"home", "etc">>

Dirs == {SearchPath[i] : i \in 1..Len(SearchPath)}

\* get_xdg_config_home(): where save_config_path points.
ConfigHome == SearchPath[1]

Procs == {"p1", "p2"}

\* Remote keys, f"{host}:{port}", and the loopback ports the OS may hand out.
Keys == { <<"h1", ":", "2", "2">>, <<"h2", ":", "2", "2">> }

Ports == {40001, 40002}

\* csv.writer.writerow((key, val)): the fields of one record.
WriteRow(item) == <<item[1], IntToStr(item[2])>>

\* "data[row[0]] = int(row[1])" reads one record back.
ReadRow(row) == <<row[1], ParseInt(row[2]).val>>

NoFile == [present |-> FALSE, rows |-> <<>>]

RowSeqs == UNION { [1..n -> {WriteRow(<<k, v>>) : k \in Keys, v \in Ports}] : n \in 0..MaxRows }

\* dict operations on ordered items <<key, value>>.
HasKey(data, k) == \E i \in 1..Len(data) : data[i][1] = k

Lookup(data, k) == data[CHOOSE i \in 1..Len(data) : data[i][1] = k][2]

\* data[k] = v
DictSet(data, k, v) ==
    IF HasKey(data, k)
    THEN [i \in 1..Len(data) |-> IF data[i][1] = k THEN <<k, v>> ELSE data[i]]
    ELSE Append(data, <<k, v>>)

\* "for row in csv.reader(f): data[row[0]] = int(row[1])"
RECURSIVE ReadRows(_, _)
ReadRows(data, rows) ==
    IF rows = <<>> THEN data
    ELSE LET r == ReadRow(Head(rows))
         IN  ReadRows(DictSet(data, r[1], r[2]), Tail(rows))

\* load_config_paths(CONFIG_RESOURCE): the directories of the search path
\* whose <dir>/geofront-cli exists, in search-path order.
LoadConfigPaths(cd) == SelectSeq(SearchPath, LAMBDA d : cd[d])

\* load_proxy_port_map() over the files f of the directories cd.
RECURSIVE LoadFrom(_, _, _)
LoadFrom(data, paths, f) ==
    IF paths = <<>> THEN data
    ELSE LET d == Head(paths)
         IN  LoadFrom(IF f[d].present THEN ReadRows(data, f[d].rows) ELSE data,
                      Tail(paths), f)

LoadProxyPortMap(cd, f) == LoadFrom(<<>>, LoadConfigPaths(cd), f)

\* A save that leaves out the item added last (used to vary SavedRows).
SavedRowsStale(data) == [i \in 1..(Len(data) - 1) |-> WriteRow(data[i])]

\* save_proxy_port_map(data): the records written.
SavedRows(data) == [i \in 1..Len(data) |-> WriteRow(data[i])]

\* The file at the save location read as a table.
HomeTable == IF file[ConfigHome].present THEN ReadRows(<<>>, file[ConfigHome].rows) ELSE <<>>

\* load_config_paths is not under study: nothing is set in the environment.
Unset == [present |-> FALSE, text |-> <<>>]

SearchOff ==
    /\ environ = [XDG_CONFIG_HOME |-> Unset, XDG_CONFIG_DIRS |-> Unset]
    /\ existing = {}
    /\ lpc = "off"
    /\ configPaths = <<>>

\* The port-map store is not used.
PortMapOff ==
    /\ cfgDir = [d \in Dirs |-> FALSE]
    /\ file = [d \in Dirs |-> NoFile]
    /\ ppc = [p \in Procs |-> "off"]
    /\ pkey = [p \in Procs |-> <<>>]
    /\ pdata = [p \in Procs |-> <<>>]
    /\ pport = [p \in Procs |-> 0]
    /\ calls = [p \in Procs |-> 0]
    /\ history = <<>>
    /\ prevHome = <<>>

\* Any layout of well-formed mapping files over the search path.
InitLayout ==
    /\ cfgDir \in [Dirs -> BOOLEAN]
    /\ file \in [Dirs -> {NoFile} \cup {[present |-> TRUE, rows |-> rs] : rs \in RowSeqs}]
    /\ \A d \in Dirs : file[d].present => cfgDir[d]
    /\ pkey = [p \in Procs |-> <<>>]
    /\ pdata = [p \in Procs |-> <<>>]
    /\ pport = [p \in Procs |-> 0]
    /\ calls = [p \in Procs |-> 0]
    /\ history = <<>>
    /\ prevHome = <<>>
    /\ SearchOff

\* Two processes use the store at the same time.
InitPortMap ==
    /\ InitLayout
    /\ ppc = [p \in Procs |-> "idle"]
    /\ CliOff
    /\ PipeOff
    /\ resp = NoResponse /\ rpc = "off" /\ reqResult = NoReqResult
    /\ authResult = NoAuthResult /\ store = 0

\* One process uses the store.
InitPortMapSeq ==
    /\ InitLayout
    /\ ppc = [p \in Procs |-> IF p = "p1" THEN "idle" ELSE "off"]
    /\ CliOff
    /\ PipeOff
    /\ resp = NoResponse /\ rpc = "off" /\ reqResult = NoReqResult
    /\ authResult = NoAuthResult /\ store = 0

\* get_port_for_remote(host) is called.
PortCall(p, k) ==
    /\ ppc[p] = "idle"
    /\ calls[p] < MaxCalls
    /\ calls' = [calls EXCEPT ![p] = @ + 1]
    /\ ppc' = [ppc EXCEPT ![p] = "called"]
    /\ pkey' = [pkey EXCEPT ![p] = k]
    /\ pdata' = [pdata EXCEPT ![p] = <<>>]
    /\ pport' = [pport EXCEPT ![p] = 0]
    /\ UNCHANGED <<cfgDir, file, history, prevHome>>

\* data = load_proxy_port_map()
PortLoad(p) ==
    /\ ppc[p] = "called"
    /\ pdata' = [pdata EXCEPT ![p] = LoadProxyPortMap(cfgDir, file)]
    /\ ppc' = [ppc EXCEPT ![p] = "loaded"]
    /\ UNCHANGED <<cfgDir, file, pkey, pport, calls, history, prevHome>>

\* PortFound going through save_proxy_port_map before it returns.
PortFoundSaves(p) ==
    /\ ppc[p] = "loaded"
    /\ HasKey(pdata[p], pkey[p])
    /\ pport' = [pport EXCEPT ![p] = Lookup(pdata[p], pkey[p])]
    /\ ppc' = [ppc EXCEPT ![p] = "idle"]
    /\ history' = Append(history, [proc |-> p, key |-> pkey[p], fresh |-> FALSE,
                                   port |-> Lookup(pdata[p], pkey[p])])
    /\ cfgDir' = [cfgDir EXCEPT ![ConfigHome] = TRUE]
    /\ file' = [file EXCEPT ![ConfigHome] = [present |-> TRUE, rows |-> SavedRows(pdata[p])]]
    /\ UNCHANGED <<pkey, pdata, calls, prevHome>>

\* "if host in data: return data[host]"
PortFound(p) ==
    /\ ppc[p] = "loaded"
    /\ HasKey(pdata[p], pkey[p])
    /\ pport' = [pport EXCEPT ![p] = Lookup(pdata[p], pkey[p])]
    /\ ppc' = [ppc EXCEPT ![p] = "idle"]
    /\ history' = Append(history, [proc |-> p, key |-> pkey[p], fresh |-> FALSE,
                                   port |-> Lookup(pdata[p], pkey[p])])
    /\ UNCHANGED <<cfgDir, file, pkey, pdata, calls, prevHome>>

\* "else: port = get_unused_port(); data[host] = port": the OS picks a
\* loopback port that is free at that instant.
PortAllocate(p) ==
    /\ ppc[p] = "loaded"
    /\ ~HasKey(pdata[p], pkey[p])
    /\ \E port \in Ports :
        /\ pport' = [pport EXCEPT ![p] = port]
        /\ pdata' = [pdata EXCEPT ![p] = DictSet(@, pkey[p], port)]
    /\ ppc' = [ppc EXCEPT ![p] = "saving"]
    /\ UNCHANGED <<cfgDir, file, pkey, calls, history, prevHome>>

\* save_proxy_port_map: save_config_path makes the directory if needed and
\* open(config_path, 'w') truncates the file.
PortSaveOpen(p) ==
    /\ ppc[p] = "saving"
    /\ prevHome' = HomeTable
    /\ cfgDir' = [cfgDir EXCEPT ![ConfigHome] = TRUE]
    /\ file' = [file EXCEPT ![ConfigHome] = [present |-> TRUE, rows |-> <<>>]]
    /\ ppc' = [ppc EXCEPT ![p] = "writing"]
    /\ UNCHANGED <<pkey, pdata, pport, calls, history>>

\* save_proxy_port_map: the records reach the file when the with block
\* closes it; get_port_for_remote returns the new port.
PortSaveWrite(p) ==
    /\ ppc[p] = "writing"
    /\ file' = [file EXCEPT ![ConfigHome] = [present |-> TRUE, rows |-> SavedRows(pdata[p])]]
    /\ ppc' = [ppc EXCEPT ![p] = "idle"]
    /\ history' = Append(history, [proc |-> p, key |-> pkey[p], fresh |-> TRUE,
                                   port |-> pport[p]])
    /\ UNCHANGED <<cfgDir, pkey, pdata, pport, calls, prevHome>>

OthersIdle ==
    UNCHANGED <<exchangeVars, store, cliVars, pipeVars, searchVars>>

NextPortMap ==
    \/ \E p \in Procs, k \in Keys : PortCall(p, k) /\ OthersIdle
    \/ \E p \in Procs : PortLoad(p) /\ OthersIdle
    \/ \E p \in Procs : PortFound(p) /\ OthersIdle
    \/ \E p \in Procs : PortAllocate(p) /\ OthersIdle
    \/ \E p \in Procs : PortSaveOpen(p) /\ OthersIdle
    \/ \E p \in Procs : PortSaveWrite(p) /\ OthersIdle

SpecPortMap == InitPortMap /\ [][NextPortMap]_vars

SpecPortMapSeq == InitPortMapSeq /\ [][NextPortMap]_vars

-----------------------------------------------------------------------------
(* dirspec/basedir.py: the configuration search path.  Paths are sequences *)
(* of characters; the environment and the file system are drawn at the     *)
(* start and load_config_paths(resource) is run over them.                 *)

\* Model bound: the length of the value of XDG_CONFIG_DIRS.
MaxDirsLen == 3

\* os.pathsep and os.sep on POSIX.
PathSep == ":"

Sep == "/"

\* default_config_home and default_config_path (one directory each here).
DefaultConfigHome == <<"h">>

DefaultConfigPath == <<"e">>

\* The resource the paths are asked for.
Resource == <<"x">>

\* get_env_path(key, default)
GetEnvPath(var, default) == IF var.present THEN var.text ELSE default

\* A search path with the user's directory last (used to vary
\* GetXdgConfigDirs).
GetXdgConfigDirsHomeLast(env) ==
    Split(GetEnvPath(env.XDG_CONFIG_DIRS, DefaultConfigPath), PathSep)
        \o <<GetEnvPath(env.XDG_CONFIG_HOME, DefaultConfigHome)>>

\* get_xdg_config_dirs(): the config home, then the value of
\* XDG_CONFIG_DIRS split at os.pathsep.
GetXdgConfigDirs(env) ==
    <<GetEnvPath(env.XDG_CONFIG_HOME, DefaultConfigHome)>>
        \o Split(GetEnvPath(env.XDG_CONFIG_DIRS, DefaultConfigPath), PathSep)

\* os.path.join(a, b) for a relative b.
PathJoin(a, b) ==
    IF a = <<>> THEN b
    ELSE IF a[Len(a)] = Sep THEN a \o b
    ELSE a \o <<Sep>> \o b

\* The loop of load_config_paths over the directories dirs: what it has
\* yielded when it is exhausted.
RECURSIVE Yielded(_, _, _)
Yielded(dirs, resource, exist) ==
    IF dirs = <<>> THEN <<>>
    ELSE LET path == PathJoin(Head(dirs), resource)
         IN  (IF path \in exist THEN <<path>> ELSE <<>>)
                 \o Yielded(Tail(dirs), resource, exist)

\* Strings over the characters cs of length at most n.
StringsUpTo(cs, n) == UNION { [1..k -> cs] : k \in 0..n }

\* The directories that may hold the resource.
SomeDirs == { <<"h">>, <<"a">>, <<"b">>, <<>> }

InitSearch ==
    /\ CliOff
    /\ PortMapOff
    /\ PipeOff
    /\ resp = NoResponse /\ rpc = "off" /\ reqResult = NoReqResult
    /\ authResult = NoAuthResult /\ store = 0
    /\ environ \in
          [XDG_CONFIG_HOME : {Unset, [present |-> TRUE, text |-> <<"a">>]},
           XDG_CONFIG_DIRS : {Unset} \cup
               { [present |-> TRUE, text |-> t] :
                     t \in StringsUpTo({"a", "b", PathSep}, MaxDirsLen) }]
    /\ existing \in SUBSET { PathJoin(d, Resource) : d \in SomeDirs }
    /\ lpc = "start"
    /\ configPaths = <<>>

\* list(load_config_paths(resource))
LoadConfigPathsCall ==
    /\ lpc = "start"
    /\ configPaths' = Yielded(GetXdgConfigDirs(environ), Resource, existing)
    /\ lpc' = "done"
    /\ UNCHANGED <<environ, existing>>
    /\ UNCHANGED <<exchangeVars, store, cliVars, pipeVars>>
    /\ UNCHANGED <<cfgDir, file, ppc, pkey, pdata, pport, calls, history, prevHome>>

NextSearch == LoadConfigPathsCall

SpecSearch == InitSearch /\ [][NextSearch]_vars

-----------------------------------------------------------------------------
(* Properties of the configuration search path *)

\* The value of XDG_CONFIG_DIRS in effect, and the config home in effect.
ConfigDirsText == GetEnvPath(environ.XDG_CONFIG_DIRS, DefaultConfigPath)

ConfigHomeText == GetEnvPath(environ.XDG_CONFIG_HOME, DefaultConfigHome)

\* The directory at position i of the search path: the config home, then
\* the entries of XDG_CONFIG_DIRS as listed, i.e. the runs of characters
\* between the separators.
NumEntries == 1 + Cardinality({i \in 1..Len(ConfigDirsText) : ConfigDirsText[i] = PathSep})

EntryStart(n) ==
    IF n = 1 THEN 1
    ELSE 1 + CHOOSE i \in 1..Len(ConfigDirsText) :
                 /\ ConfigDirsText[i] = PathSep
                 /\ Cardinality({j \in 1..i : ConfigDirsText[j] = PathSep}) = n - 1

EntryEnd(n) ==
    IF n = NumEntries THEN Len(ConfigDirsText)
    ELSE (CHOOSE i \in 1..Len(ConfigDirsText) :
              /\ ConfigDirsText[i] = PathSep
              /\ Cardinality({j \in 1..i : ConfigDirsText[j] = PathSep}) = n) - 1

SearchDir(i) ==
    IF i = 1 THEN ConfigHomeText
    ELSE SubSeq(ConfigDirsText, EntryStart(i - 1), EntryEnd(i - 1))

\* <dir>/<resource>
ResourcePath(dir) == IF dir = <<>> THEN Resource ELSE dir \o <<"/">> \o Resource

\* The positions of the search path whose <dir>/<resource> exists.
Found == {i \in 1..(1 + NumEntries) : ResourcePath(SearchDir(i)) \in existing}

\* The m-th position of Found, in search-path order.
NthFound(m) == CHOOSE i \in Found : Cardinality({j \in Found : j <= i}) = m

\* C26: load_config_paths(resource) yields exactly the paths
\* <dir>/<resource> that exist, for dir ranging over the search path in
\* order, the config home first and then each entry of XDG_CONFIG_DIRS in
\* its listed order; it yields nothing when none exists.
C26_YieldsExistingInOrder ==
    lpc = "done" =>
        /\ Len(configPaths) = Cardinality(Found)
        /\ \A m \in 1..Len(configPaths) : configPaths[m] = ResourcePath(SearchDir(NthFound(m)))
        /\ Found = {} => configPaths = <<>>

\* The config home and the second entry of XDG_CONFIG_DIRS have the
\* resource, the first entry has not: two paths are yielded, home first.
C26_Witness ==
    /\ lpc = "done"
    /\ ~environ.XDG_CONFIG_HOME.present
    /\ environ.XDG_CONFIG_DIRS = [present |-> TRUE, text |-> <<"a", ":", "b">>]
    /\ existing = { <<"h", "/", "x">>, <<"b", "/", "x">> }
    /\ configPaths = << <<"h", "/", "x">>, <<"b", "/", "x">> >>

-----------------------------------------------------------------------------
(* Properties of the port-map store *)

\* No call of get_port_for_remote is in progress.
Quiescent == \A p \in Procs : ppc[p] \in {"idle", "off"}

\* C6: calls of one process with the same key return the same port; the
\* port allocated and saved by the first call is read back by later ones.
C6_PortStable ==
    \A i \in 1..Len(history), j \in 1..Len(history) :
        history[i].key = history[j].key => history[i].port = history[j].port

\* A key was allocated by one call and found again by a later one.
C6_Witness ==
    \E i \in 1..Len(history), j \in 1..Len(history) :
        /\ i < j
        /\ history[i].key = history[j].key
        /\ history[i].fresh /\ ~history[j].fresh
        /\ history[i].port = history[j].port

\* C7: when invocations of two processes for different keys have finished,
\* the persisted table holds both keys, each with the port returned.
C7_ConcurrentDistinctKeysSafe ==
    Quiescent =>
        \A i \in 1..Len(history), j \in 1..Len(history) :
            history[i].proc # history[j].proc /\ history[i].key # history[j].key =>
                LET table == LoadProxyPortMap(cfgDir, file)
                IN  /\ HasKey(table, history[i].key)
                    /\ Lookup(table, history[i].key) = history[i].port
                    /\ HasKey(table, history[j].key)
                    /\ Lookup(table, history[j].key) = history[j].port

\* The file of directory d read as a table.
TableOf(d) == IF file[d].present THEN ReadRows(<<>>, file[d].rows) ELSE <<>>

\* C8: the map load_proxy_port_map returns holds, for every key, the value
\* of the first directory of the search path whose file has the key.
C8_FirstFoundWins ==
    \A p \in Procs : ppc[p] = "loaded" =>
        \A k \in Keys :
            LET holders == SelectSeq(LoadConfigPaths(cfgDir),
                                     LAMBDA d : HasKey(TableOf(d), k))
            IN  holders # <<>> =>
                    /\ HasKey(pdata[p], k)
                    /\ Lookup(pdata[p], k) = Lookup(TableOf(Head(holders)), k)

\* C9: a save never removes a key from the table at the save location and
\* never changes the port of a key that was in it.
C9_TableOnlyGrows ==
    Quiescent =>
        \A i \in 1..Len(prevHome) :
            /\ HasKey(HomeTable, prevHome[i][1])
            /\ Lookup(HomeTable, prevHome[i][1]) = prevHome[i][2]

\* C24: two distinct remote keys that get_port_for_remote has allocated a
\* port for have distinct ports, the OS handing out at each allocation a
\* loopback port that is not bound at that instant.
C24_DistinctKeysDistinctPorts ==
    \A i \in 1..Len(history), j \in 1..Len(history) :
        (history[i].fresh /\ history[j].fresh /\ history[i].key # history[j].key)
            => history[i].port # history[j].port

\* Process p leaves "if host in data" with the key in the loaded map.
ReturnsFound(p) ==
    /\ ppc[p] = "loaded"
    /\ HasKey(pdata[p], pkey[p])
    /\ ppc'[p] # "loaded"

\* Process p enters save_proxy_port_map.
StartsSave(p) == ppc[p] # "saving" /\ ppc'[p] = "saving"

FoundIsReadOnly ==
    /\ \A p \in Procs :
        /\ ReturnsFound(p) =>
            /\ ppc'[p] = "idle"
            /\ pport'[p] = Lookup(pdata[p], pkey[p])
            /\ pdata'[p] = pdata[p]
            /\ file' = file /\ cfgDir' = cfgDir
        /\ StartsSave(p) =>
            /\ ppc[p] = "loaded"
            /\ ~HasKey(pdata[p], pkey[p])
            /\ pport'[p] \in Ports
    /\ (file' # file \/ cfgDir' # cfgDir) =>
            \E p \in Procs : ppc[p] \in {"saving", "writing"}

\* C36: get_port_for_remote with a key that is in the loaded map returns
\* the port stored for it without going through get_unused_port and leaves
\* every mapping file and directory as it was; the files change only in
\* save_proxy_port_map, which is entered only with a key that was not in
\* the loaded map.
C36_FoundIsReadOnly == [][FoundIsReadOnly]_vars

\* A call found its key in a file of a directory after the config home,
\* returned its port and the files were left alone.
C36_Witness ==
    /\ ppc["p1"] = "idle" /\ calls["p1"] = 1
    /\ Len(history) = 1 /\ ~history[1].fresh
    /\ pport["p1"] = history[1].port
    /\ ~file["home"].present /\ HasKey(TableOf("etc"), pkey["p1"])

-----------------------------------------------------------------------------
(* proxy.py: the tunnel pipe.  serve_proxy runs pipe() as a task of the    *)
(* event loop; pipe() starts handle_subproc and handle_ssh_sock as tasks.  *)
(* A task runs from one await to the next in one step.  Task.cancel() on a *)
(* task that waits for another task cancels that task; otherwise the       *)
(* cancelled task resumes from its await with CancelledError.              *)

\* Model bound: chunks forwarded in each direction.
MaxChunks == 2

\* remote['host'] and remote['port'] of the pipe under study.
PipeRemoteKey == <<"h1", ":", "2", "2">>

\* loop.create_task(coro): the task is scheduled and has not run yet.
NewTask == [pc |-> "created", must_cancel |-> FALSE, outcome |-> "pending", leaving |-> ""]

\* The task ended: it returned, raised, or was cancelled.
EndTask(how) == [pc |-> "done", must_cancel |-> FALSE, outcome |-> how, leaving |-> ""]

\* "t and not t.done()"
Pending(t) == t.outcome = "pending"

\* t.cancel(): asks a task that is not done to raise CancelledError.
Cancel(t) == IF Pending(t) THEN [t EXCEPT !.must_cancel = TRUE] ELSE t

\* Mapping files the pipe's process may find: none, or one at the save
\* location that maps the remote to a port.
PipeLayouts ==
    { [cd |-> FALSE, f |-> NoFile], [cd |-> TRUE, f |-> NoFile] } \cup
    { [cd |-> TRUE, f |-> [present |-> TRUE, rows |-> <<WriteRow(<<PipeRemoteKey, p>>)>>]] :
        p \in Ports }

\* start_ssh_proxy(url, remote, ssh_executable) is called.
InitPipe ==
    /\ CliOff
    /\ resp = NoResponse /\ rpc = "off" /\ reqResult = NoReqResult
    /\ authResult = NoAuthResult /\ store = 0
    /\ \E l \in PipeLayouts :
        /\ cfgDir = [d \in Dirs |-> IF d = ConfigHome THEN l.cd ELSE FALSE]
        /\ file = [d \in Dirs |-> IF d = ConfigHome THEN l.f ELSE NoFile]
    /\ ppc = [p \in Procs |-> "off"]
    /\ pkey = [p \in Procs |-> <<>>]
    /\ pdata = [p \in Procs |-> <<>>]
    /\ pport = [p \in Procs |-> 0]
    /\ calls = [p \in Procs |-> 0]
    /\ history = <<>>
    /\ prevHome = <<>>
    /\ SearchOff
    /\ vpc = "enter"
    /\ pipe_task = NoTask /\ subproc_task = NoTask /\ ssh_reader_task = NoTask
    /\ proc = "none" /\ local_sock = "none" /\ ssh_sock = "none"
    /\ peer = "none" /\ ws = "none" /\ session = "none"
    /\ loopStopped = FALSE /\ logs = {} /\ bind_port = 0
    /\ inUse \in SUBSET Ports
    /\ binds = 0 /\ portsTried = {} /\ wsConnects = 0 /\ spawns = 0
    /\ upstream = 0 /\ downstream = 0
    /\ sockIn = <<>> /\ wsOut = <<>> /\ wsIn = <<>> /\ sockOut = <<>> /\ msg = <<>>
    /\ faults = {}

\* The task t waits at the await named pc; leaving records how the task is
\* on its way out of the try statement, "" while it is not.
At(t, pc, leaving) == [t EXCEPT !.pc = pc, !.must_cancel = FALSE, !.leaving = leaving]

\* What the pipe leaves alone outside its own tasks and sockets.
PipeFrame == UNCHANGED <<exchangeVars, store, cliVars, ppc, pkey, pdata, pport,
                         calls, history, prevHome, searchVars>>

\* The finally clause from "if ssh_sock:" on: the pipe task t ends as how.
FinallyClose(how) ==
    /\ ssh_sock' = IF ssh_sock = "open" THEN "closed" ELSE ssh_sock
    /\ session' = "closed"
    /\ loopStopped' = TRUE
    /\ pipe_task' = EndTask(how)

\* The finally clause from "if ssh_reader_task and not ...done():" on.
FinallyReader(how) ==
    IF Pending(ssh_reader_task)
    THEN /\ ssh_reader_task' = Cancel(ssh_reader_task)
         /\ pipe_task' = At(pipe_task, "await_reader", how)
         /\ UNCHANGED <<ssh_sock, session, loopStopped>>
    ELSE FinallyClose(how) /\ UNCHANGED ssh_reader_task

\* The finally clause of pipe(), entered with the pending cancellation (if
\* any) consumed; how is "returned", or the exception being raised.
Finally(how) ==
    IF Pending(subproc_task)
    THEN /\ subproc_task' = Cancel(subproc_task)
         /\ pipe_task' = At(pipe_task, "await_subproc", how)
         /\ UNCHANGED <<ssh_reader_task, ssh_sock, session, loopStopped>>
    ELSE FinallyReader(how) /\ UNCHANGED subproc_task

streams == <<sockIn, wsOut, wsIn, sockOut, msg>>

\* serve_proxy up to its yield: "pipe_task = loop.create_task(pipe(*args))".
ServeProxyEnter ==
    /\ vpc = "enter"
    /\ vpc' = "serving"
    /\ pipe_task' = NewTask
    /\ UNCHANGED <<subproc_task, ssh_reader_task, proc, local_sock, ssh_sock, peer,
                   ws, session, loopStopped, logs, bind_port, inUse, binds,
                   portsTried, wsConnects, spawns, upstream, downstream>>
    /\ UNCHANGED <<cfgDir, file>>
    /\ UNCHANGED streams
    /\ UNCHANGED faults
    /\ PipeFrame

counters == <<binds, portsTried, wsConnects, spawns, upstream, downstream>>

\* What one sock_recv returns or one BINARY message carries.
Chunks == { <<1>>, <<2, 3>> }

\* The leading parts of data, from none of it to all of it.
Prefixes(data) == { SubSeq(data, 1, n) : n \in 0..Len(data) }

\* A send that puts the data before what was sent (used to vary
\* WsSendBytes).
WsSendBytesFirst(sent, data) == data \o sent

\* ws.send_bytes(data): the data follows what was sent before.
WsSendBytes(sent, data) == sent \o data

\* loop.sock_sendall(ssh_sock, data): the data follows what was written.
SockSendall(written, data) == written \o data

\* pipe() from its start to "bind_port = get_port_for_remote(...)": the
\* session and the listening socket are created and the port is looked up,
\* or allocated among the ports free at that instant and saved.
PipeGetPort ==
    /\ pipe_task.pc = "created" /\ ~pipe_task.must_cancel
    /\ LET data == LoadProxyPortMap(cfgDir, file)
       IN  IF HasKey(data, PipeRemoteKey)
           THEN /\ bind_port' = Lookup(data, PipeRemoteKey)
                /\ UNCHANGED <<cfgDir, file>>
           ELSE \E port \in Ports \ inUse :
                /\ bind_port' = port
                /\ cfgDir' = [cfgDir EXCEPT ![ConfigHome] = TRUE]
                /\ file' = [file EXCEPT ![ConfigHome] =
                              [present |-> TRUE,
                               rows |-> SavedRows(DictSet(data, PipeRemoteKey, port))]]
    /\ session' = "open"
    /\ local_sock' = "open"
    /\ pipe_task' = At(pipe_task, "bind", "")
    /\ UNCHANGED <<vpc, subproc_task, ssh_reader_task, proc, ssh_sock, peer, ws,
                   loopStopped, logs, inUse, counters>>
    /\ UNCHANGED streams
    /\ UNCHANGED faults
    /\ PipeFrame

\* get_unused_port() raises OSError when no port is free: the bare except
\* of pipe() logs it and the finally clause runs.
PipeNoFreePort ==
    /\ pipe_task.pc = "created" /\ ~pipe_task.must_cancel
    /\ ~HasKey(LoadProxyPortMap(cfgDir, file), PipeRemoteKey)
    /\ Ports \ inUse = {}
    /\ local_sock' = "open"
    /\ logs' = logs \cup {"Unexpected error!"}
    /\ Finally("returned")
    /\ UNCHANGED <<vpc, proc, peer, ws, bind_port, inUse, counters, cfgDir, file>>
    /\ UNCHANGED streams
    /\ faults' = faults \cup {"get_unused_port"}
    /\ PipeFrame

\* The pipe task was cancelled before its first step: pipe() never runs.
PipeCancelledBeforeStart ==
    /\ pipe_task.pc = "created" /\ pipe_task.must_cancel
    /\ pipe_task' = EndTask("cancelled")
    /\ UNCHANGED <<vpc, subproc_task, ssh_reader_task, proc, local_sock, ssh_sock,
                   peer, ws, session, loopStopped, logs, bind_port, inUse,
                   counters, cfgDir, file>>
    /\ UNCHANGED streams
    /\ UNCHANGED faults
    /\ PipeFrame

\* Another process binds or releases a loopback port between the lookup
\* and the pipe's own bind.
EnvPortBound ==
    /\ pipe_task.pc = "bind"
    /\ \E port \in Ports \ inUse : inUse' = inUse \cup {port}
    /\ UNCHANGED <<vpc, pipe_task, subproc_task, ssh_reader_task, proc, local_sock,
                   ssh_sock, peer, ws, session, loopStopped, logs, bind_port,
                   counters, cfgDir, file>>
    /\ UNCHANGED streams
    /\ UNCHANGED faults
    /\ PipeFrame

EnvPortReleased ==
    /\ pipe_task.pc = "bind"
    /\ \E port \in inUse : inUse' = inUse \ {port}
    /\ UNCHANGED <<vpc, pipe_task, subproc_task, ssh_reader_task, proc, local_sock,
                   ssh_sock, peer, ws, session, loopStopped, logs, bind_port,
                   counters, cfgDir, file>>
    /\ UNCHANGED streams
    /\ UNCHANGED faults
    /\ PipeFrame

\* A bind failure that is logged and then ignored (used to vary
\* PipeBindFails): the pipe goes on to connect.
PipeBindFailsThenConnects ==
    /\ pipe_task.pc = "bind"
    /\ bind_port \in inUse
    /\ binds' = binds + 1
    /\ portsTried' = portsTried \cup {bind_port}
    /\ logs' = logs \cup {"Cannot bind"}
    /\ wsConnects' = wsConnects + 1
    /\ pipe_task' = At(pipe_task, "ws_connect", "")
    /\ UNCHANGED <<vpc, subproc_task, ssh_reader_task, proc, local_sock, ssh_sock,
                   peer, ws, session, loopStopped, bind_port, inUse, spawns,
                   upstream, downstream, cfgDir, file>>
    /\ UNCHANGED streams
    /\ faults' = faults \cup {"bind"}
    /\ PipeFrame

\* "local_sock.bind(('localhost', bind_port))" raises OSError: the error is
\* logged, pipe() returns and its finally clause runs.
PipeBindFails ==
    /\ pipe_task.pc = "bind"
    /\ bind_port \in inUse
    /\ binds' = binds + 1
    /\ portsTried' = portsTried \cup {bind_port}
    /\ logs' = logs \cup {"Cannot bind"}
    /\ Finally("returned")
    /\ UNCHANGED <<vpc, proc, local_sock, peer, ws, bind_port, inUse, wsConnects,
                   spawns, upstream, downstream, cfgDir, file>>
    /\ UNCHANGED streams
    /\ faults' = faults \cup {"bind"}
    /\ PipeFrame

\* The bind succeeds: "local_sock.listen(1)", then session.ws_connect(url)
\* is awaited.
PipeBindOk ==
    /\ pipe_task.pc = "bind"
    /\ bind_port \notin inUse
    /\ binds' = binds + 1
    /\ portsTried' = portsTried \cup {bind_port}
    /\ local_sock' = "listening"
    /\ wsConnects' = wsConnects + 1
    /\ pipe_task' = At(pipe_task, "ws_connect", "")
    /\ UNCHANGED <<vpc, subproc_task, ssh_reader_task, proc, ssh_sock, peer, ws,
                   session, loopStopped, logs, bind_port, inUse, spawns, upstream,
                   downstream, cfgDir, file>>
    /\ UNCHANGED streams
    /\ UNCHANGED faults
    /\ PipeFrame

\* The WebSocket is open: handle_subproc is started as a task and the pipe
\* yields once ("await asyncio.sleep(0)").
PipeWsConnected ==
    /\ pipe_task.pc = "ws_connect" /\ ~pipe_task.must_cancel
    /\ ws' = "open"
    /\ subproc_task' = NewTask
    /\ pipe_task' = At(pipe_task, "sleep", "")
    /\ UNCHANGED <<vpc, ssh_reader_task, proc, local_sock, ssh_sock, peer, session,
                   loopStopped, logs, bind_port, inUse, counters, cfgDir, file>>
    /\ UNCHANGED streams
    /\ UNCHANGED faults
    /\ PipeFrame

\* A pipe that starts handle_subproc although ws_connect has raised (used
\* to vary PipeWsConnectFails).
PipeWsConnectFailsSpawning ==
    /\ pipe_task.pc = "ws_connect" /\ ~pipe_task.must_cancel
    /\ logs' = logs \cup {"Connection error!"}
    /\ subproc_task' = NewTask
    /\ pipe_task' = At(pipe_task, "sleep", "")
    /\ UNCHANGED <<vpc, ssh_reader_task, proc, local_sock, ssh_sock, peer, ws,
                   session, loopStopped, bind_port, inUse, counters, cfgDir, file>>
    /\ UNCHANGED streams
    /\ faults' = faults \cup {"ws_connect"}
    /\ PipeFrame

\* ws_connect raises ClientError: it is logged and raised again, through
\* the finally clause.
PipeWsConnectFails ==
    /\ pipe_task.pc = "ws_connect" /\ ~pipe_task.must_cancel
    /\ logs' = logs \cup {"Connection error!"}
    /\ Finally("ClientError")
    /\ UNCHANGED <<vpc, proc, local_sock, peer, ws, bind_port, inUse, counters,
                   cfgDir, file>>
    /\ UNCHANGED streams
    /\ faults' = faults \cup {"ws_connect"}
    /\ PipeFrame

\* CancelledError at "await ws_connect": "except CancelledError: pass".
PipeCancelledConnecting ==
    /\ pipe_task.pc = "ws_connect" /\ pipe_task.must_cancel
    /\ Finally("returned")
    /\ UNCHANGED <<vpc, proc, local_sock, peer, ws, logs, bind_port, inUse,
                   counters, cfgDir, file>>
    /\ UNCHANGED streams
    /\ UNCHANGED faults
    /\ PipeFrame

\* "await asyncio.sleep(0)" returns after handle_subproc has had its first
\* step; loop.sock_accept(local_sock) is awaited.
PipeSleepDone ==
    /\ pipe_task.pc = "sleep" /\ ~pipe_task.must_cancel
    /\ subproc_task.pc # "created"
    /\ pipe_task' = At(pipe_task, "accept", "")
    /\ UNCHANGED <<vpc, subproc_task, ssh_reader_task, proc, local_sock, ssh_sock,
                   peer, ws, session, loopStopped, logs, bind_port, inUse,
                   counters, cfgDir, file>>
    /\ UNCHANGED streams
    /\ UNCHANGED faults
    /\ PipeFrame

\* An accept that leaves the listener open (used to vary PipeAccepted).
PipeAcceptedStillListening ==
    /\ pipe_task.pc = "accept" /\ ~pipe_task.must_cancel
    /\ peer # "none"
    /\ ssh_sock' = "open"
    /\ ssh_reader_task' = NewTask
    /\ pipe_task' = At(pipe_task, "receive", "")
    /\ UNCHANGED <<vpc, subproc_task, proc, local_sock, peer, ws, session,
                   loopStopped, logs, bind_port, inUse, counters, cfgDir, file>>
    /\ UNCHANGED streams
    /\ UNCHANGED faults
    /\ PipeFrame

\* sock_accept returns the connection: the listener is closed,
\* handle_ssh_sock is started as a task and the first message of ws is
\* awaited.
PipeAccepted ==
    /\ pipe_task.pc = "accept" /\ ~pipe_task.must_cancel
    /\ peer # "none"
    /\ ssh_sock' = "open"
    /\ local_sock' = "closed"
    /\ ssh_reader_task' = NewTask
    /\ pipe_task' = At(pipe_task, "receive", "")
    /\ UNCHANGED <<vpc, subproc_task, proc, peer, ws, session, loopStopped, logs,
                   bind_port, inUse, counters, cfgDir, file>>
    /\ UNCHANGED streams
    /\ UNCHANGED faults
    /\ PipeFrame

\* "async for msg in ws" yields a BINARY message: sock_sendall is awaited.
PipeWsBinary ==
    /\ pipe_task.pc = "receive" /\ ~pipe_task.must_cancel
    /\ downstream < MaxChunks
    /\ \E data \in Chunks :
        /\ wsIn' = wsIn \o data
        /\ msg' = data
    /\ pipe_task' = At(pipe_task, "sendall", "")
    /\ UNCHANGED <<vpc, subproc_task, ssh_reader_task, proc, local_sock, ssh_sock,
                   peer, ws, session, loopStopped, logs, bind_port, inUse,
                   counters, cfgDir, file>>
    /\ UNCHANGED <<sockIn, wsOut, sockOut>>
    /\ UNCHANGED faults
    /\ PipeFrame

\* sock_sendall has written the message to the SSH client.
PipeSent ==
    /\ pipe_task.pc = "sendall" /\ ~pipe_task.must_cancel
    /\ peer = "connected"
    /\ downstream' = downstream + 1
    /\ sockOut' = SockSendall(sockOut, msg)
    /\ msg' = <<>>
    /\ pipe_task' = At(pipe_task, "receive", "")
    /\ UNCHANGED <<vpc, subproc_task, ssh_reader_task, proc, local_sock, ssh_sock,
                   peer, ws, session, loopStopped, logs, bind_port, inUse, binds,
                   portsTried, wsConnects, spawns, upstream, cfgDir, file>>
    /\ UNCHANGED <<sockIn, wsOut, wsIn>>
    /\ UNCHANGED faults
    /\ PipeFrame

\* sock_sendall raises OSError, the SSH client being gone, with some part
\* of the message written: the exception leaves the "async with" block,
\* which awaits ws.close().
PipeSendFails ==
    /\ pipe_task.pc = "sendall" /\ ~pipe_task.must_cancel
    /\ peer = "closed"
    /\ \E part \in Prefixes(msg) \ {msg} : sockOut' = SockSendall(sockOut, part)
    /\ msg' = <<>>
    /\ pipe_task' = At(pipe_task, "ws_close", "error")
    /\ UNCHANGED <<vpc, subproc_task, ssh_reader_task, proc, local_sock, ssh_sock,
                   peer, ws, session, loopStopped, logs, bind_port, inUse,
                   counters, cfgDir, file>>
    /\ UNCHANGED <<sockIn, wsOut, wsIn>>
    /\ faults' = faults \cup {"sock_sendall"}
    /\ PipeFrame

\* The messages end or a CLOSED message arrives: "break", and the "async
\* with" block awaits ws.close().
PipeWsClosed ==
    /\ pipe_task.pc = "receive" /\ ~pipe_task.must_cancel
    /\ pipe_task' = At(pipe_task, "ws_close", "break")
    /\ UNCHANGED <<vpc, subproc_task, ssh_reader_task, proc, local_sock, ssh_sock,
                   peer, ws, session, loopStopped, logs, bind_port, inUse,
                   counters, cfgDir, file>>
    /\ UNCHANGED streams
    /\ UNCHANGED faults
    /\ PipeFrame

\* An ERROR message arrives: it is logged, then "break".
PipeWsError ==
    /\ pipe_task.pc = "receive" /\ ~pipe_task.must_cancel
    /\ logs' = logs \cup {"Server disconnected unexpectedly."}
    /\ pipe_task' = At(pipe_task, "ws_close", "break")
    /\ UNCHANGED <<vpc, subproc_task, ssh_reader_task, proc, local_sock, ssh_sock,
                   peer, ws, session, loopStopped, bind_port, inUse, counters,
                   cfgDir, file>>
    /\ UNCHANGED streams
    /\ faults' = faults \cup {"ws"}
    /\ PipeFrame

\* CancelledError at an await inside the "async with" block: the block
\* awaits ws.close() on its way out.  A cancellation is delivered to a
\* suspended task, so the tasks created before it suspended have had
\* their first step.
PipeCancelledInWs ==
    /\ pipe_task.pc \in {"sleep", "accept", "receive", "sendall"}
    /\ pipe_task.must_cancel
    /\ subproc_task.pc # "created"
    /\ ssh_reader_task.pc # "created"
    /\ IF pipe_task.pc = "sendall"
       THEN /\ \E part \in Prefixes(msg) : sockOut' = SockSendall(sockOut, part)
            /\ msg' = <<>>
       ELSE UNCHANGED <<sockOut, msg>>
    /\ pipe_task' = At(pipe_task, "ws_close", "cancelled")
    /\ UNCHANGED <<vpc, subproc_task, ssh_reader_task, proc, local_sock, ssh_sock,
                   peer, ws, session, loopStopped, logs, bind_port, inUse,
                   counters, cfgDir, file>>
    /\ UNCHANGED <<sockIn, wsOut, wsIn>>
    /\ UNCHANGED faults
    /\ PipeFrame

\* ws.close() is done: the except clause that matches runs (only the bare
\* one logs), then the finally clause.
PipeWsCloseDone ==
    /\ pipe_task.pc = "ws_close" /\ ~pipe_task.must_cancel
    /\ ws' = "closed"
    /\ logs' = IF pipe_task.leaving = "error" THEN logs \cup {"Unexpected error!"} ELSE logs
    /\ Finally("returned")
    /\ UNCHANGED <<vpc, proc, local_sock, peer, bind_port, inUse, counters, cfgDir,
                   file>>
    /\ UNCHANGED streams
    /\ UNCHANGED faults
    /\ PipeFrame

\* CancelledError at the await of ws.close(), which closes the response
\* before it raises again: "except CancelledError: pass".
PipeCancelledClosing ==
    /\ pipe_task.pc = "ws_close" /\ pipe_task.must_cancel
    /\ ssh_reader_task.pc # "created"
    /\ ws' = "closed"
    /\ Finally("returned")
    /\ UNCHANGED <<vpc, proc, local_sock, peer, logs, bind_port, inUse,
                   counters, cfgDir, file>>
    /\ UNCHANGED streams
    /\ UNCHANGED faults
    /\ PipeFrame

\* "await subproc_task" in the finally clause returns.
PipeSubprocAwaited ==
    /\ pipe_task.pc = "await_subproc" /\ ~pipe_task.must_cancel
    /\ ~Pending(subproc_task)
    /\ ssh_reader_task.pc # "created"
    /\ FinallyReader(pipe_task.leaving)
    /\ UNCHANGED <<vpc, subproc_task, proc, local_sock, peer, ws, logs, bind_port,
                   inUse, counters, cfgDir, file>>
    /\ UNCHANGED streams
    /\ UNCHANGED faults
    /\ PipeFrame

\* "await ssh_reader_task" in the finally clause returns: the reader has
\* left its loop on the CancelledError it was sent.
PipeReaderAwaited ==
    /\ pipe_task.pc = "await_reader" /\ ~pipe_task.must_cancel
    /\ ~Pending(ssh_reader_task)
    /\ FinallyClose(pipe_task.leaving)
    /\ UNCHANGED <<vpc, subproc_task, ssh_reader_task, proc, local_sock, peer, ws,
                   logs, bind_port, inUse, counters, cfgDir, file>>
    /\ UNCHANGED streams
    /\ UNCHANGED faults
    /\ PipeFrame

\* CancelledError at an await of the finally clause: the rest of the
\* clause is skipped and the task ends cancelled.
PipeCleanupCancelled ==
    /\ pipe_task.pc \in {"await_subproc", "await_reader"}
    /\ pipe_task.must_cancel
    /\ ssh_reader_task.pc # "created"
    /\ pipe_task' = EndTask("cancelled")
    /\ UNCHANGED <<vpc, subproc_task, ssh_reader_task, proc, local_sock, ssh_sock,
                   peer, ws, session, loopStopped, logs, bind_port, inUse,
                   counters, cfgDir, file>>
    /\ UNCHANGED streams
    /\ UNCHANGED faults
    /\ PipeFrame

\* handle_subproc's first step: create_subprocess_exec is awaited.
SubprocStart ==
    /\ subproc_task.pc = "created" /\ ~subproc_task.must_cancel
    /\ subproc_task' = At(subproc_task, "spawn", "")
    /\ UNCHANGED <<vpc, pipe_task, ssh_reader_task, proc, local_sock, ssh_sock,
                   peer, ws, session, loopStopped, logs, bind_port, inUse,
                   counters, cfgDir, file>>
    /\ UNCHANGED streams
    /\ UNCHANGED faults
    /\ PipeFrame

\* The subprocess is created: "await proc.wait()".
SubprocSpawned ==
    /\ subproc_task.pc = "spawn" /\ ~subproc_task.must_cancel
    /\ proc' = "running"
    /\ spawns' = spawns + 1
    /\ subproc_task' = At(subproc_task, "wait", "")
    /\ UNCHANGED <<vpc, pipe_task, ssh_reader_task, local_sock, ssh_sock, peer, ws,
                   session, loopStopped, logs, bind_port, inUse, binds, portsTried,
                   wsConnects, upstream, downstream, cfgDir, file>>
    /\ UNCHANGED streams
    /\ UNCHANGED faults
    /\ PipeFrame

\* create_subprocess_exec raises (no such executable): the bare except of
\* handle_subproc logs it and the task returns.
SubprocSpawnFails ==
    /\ subproc_task.pc = "spawn" /\ ~subproc_task.must_cancel
    /\ logs' = logs \cup {"Unexpected error! (handle_subproc)"}
    /\ subproc_task' = EndTask("returned")
    /\ UNCHANGED <<vpc, pipe_task, ssh_reader_task, proc, local_sock, ssh_sock,
                   peer, ws, session, loopStopped, bind_port, inUse, counters,
                   cfgDir, file>>
    /\ UNCHANGED streams
    /\ faults' = faults \cup {"create_subprocess_exec"}
    /\ PipeFrame

\* proc.wait() returns: "pipe_task.cancel()".
SubprocWaitDone ==
    /\ subproc_task.pc = "wait" /\ ~subproc_task.must_cancel
    /\ proc = "exited"
    /\ pipe_task' = Cancel(pipe_task)
    /\ subproc_task' = EndTask("returned")
    /\ UNCHANGED <<vpc, ssh_reader_task, proc, local_sock, ssh_sock, peer, ws,
                   session, loopStopped, logs, bind_port, inUse, counters, cfgDir,
                   file>>
    /\ UNCHANGED streams
    /\ UNCHANGED faults
    /\ PipeFrame

\* A watcher that kills the subprocess when it is cancelled (used to vary
\* SubprocCancelled).
SubprocCancelledKills ==
    /\ subproc_task.pc \in {"spawn", "wait"} /\ subproc_task.must_cancel
    /\ logs' = logs \cup {"Unexpected error! (handle_subproc)"}
    /\ subproc_task' = EndTask("returned")
    /\ proc' = IF proc = "running" THEN "exited" ELSE proc
    /\ UNCHANGED <<vpc, pipe_task, ssh_reader_task, local_sock, ssh_sock,
                   peer, ws, session, loopStopped, bind_port, inUse, counters,
                   cfgDir, file>>
    /\ UNCHANGED streams
    /\ UNCHANGED faults
    /\ PipeFrame

\* CancelledError at an await of handle_subproc: its bare except logs it
\* and the task returns.
SubprocCancelled ==
    /\ subproc_task.pc \in {"spawn", "wait"} /\ subproc_task.must_cancel
    /\ logs' = logs \cup {"Unexpected error! (handle_subproc)"}
    /\ subproc_task' = EndTask("returned")
    /\ UNCHANGED <<vpc, pipe_task, ssh_reader_task, proc, local_sock, ssh_sock,
                   peer, ws, session, loopStopped, bind_port, inUse, counters,
                   cfgDir, file>>
    /\ UNCHANGED streams
    /\ UNCHANGED faults
    /\ PipeFrame

\* The SSH client connects to the listening port.
SshConnects ==
    /\ proc = "running" /\ peer = "none" /\ local_sock = "listening"
    /\ peer' = "connected"
    /\ UNCHANGED <<vpc, pipe_task, subproc_task, ssh_reader_task, proc, local_sock,
                   ssh_sock, ws, session, loopStopped, logs, bind_port, inUse,
                   counters, cfgDir, file>>
    /\ UNCHANGED streams
    /\ UNCHANGED faults
    /\ PipeFrame

\* The SSH client closes its end of the connection and keeps running.
SshCloses ==
    /\ proc = "running" /\ peer = "connected"
    /\ peer' = "closed"
    /\ UNCHANGED <<vpc, pipe_task, subproc_task, ssh_reader_task, proc, local_sock,
                   ssh_sock, ws, session, loopStopped, logs, bind_port, inUse,
                   counters, cfgDir, file>>
    /\ UNCHANGED streams
    /\ UNCHANGED faults
    /\ PipeFrame

\* The SSH client exits; its end of the connection is closed.
SshExits ==
    /\ proc = "running"
    /\ proc' = "exited"
    /\ peer' = IF peer = "connected" THEN "closed" ELSE peer
    /\ UNCHANGED <<vpc, pipe_task, subproc_task, ssh_reader_task, local_sock,
                   ssh_sock, ws, session, loopStopped, logs, bind_port, inUse,
                   counters, cfgDir, file>>
    /\ UNCHANGED streams
    /\ UNCHANGED faults
    /\ PipeFrame

\* handle_ssh_sock's first step: sock_recv is awaited.
ReaderStart ==
    /\ ssh_reader_task.pc = "created" /\ ~ssh_reader_task.must_cancel
    /\ ssh_reader_task' = At(ssh_reader_task, "recv", "")
    /\ UNCHANGED <<vpc, pipe_task, subproc_task, proc, local_sock, ssh_sock, peer,
                   ws, session, loopStopped, logs, bind_port, inUse, counters,
                   cfgDir, file>>
    /\ UNCHANGED streams
    /\ UNCHANGED faults
    /\ PipeFrame

\* sock_recv returns data: "ws.send_bytes(data)".
ReaderRecv ==
    /\ ssh_reader_task.pc = "recv" /\ ~ssh_reader_task.must_cancel
    /\ peer = "connected"
    /\ upstream < MaxChunks
    /\ upstream' = upstream + 1
    /\ \E data \in Chunks :
        /\ sockIn' = sockIn \o data
        /\ wsOut' = IF ws = "open" THEN WsSendBytes(wsOut, data) ELSE wsOut
    /\ UNCHANGED <<wsIn, sockOut, msg>>
    /\ UNCHANGED <<vpc, pipe_task, subproc_task, ssh_reader_task, proc, local_sock,
                   ssh_sock, peer, ws, session, loopStopped, logs, bind_port,
                   inUse, binds, portsTried, wsConnects, spawns, downstream,
                   cfgDir, file>>
    /\ UNCHANGED faults
    /\ PipeFrame

\* sock_recv returns no data: "if not data: break".
ReaderEof ==
    /\ ssh_reader_task.pc = "recv" /\ ~ssh_reader_task.must_cancel
    /\ peer = "closed"
    /\ ssh_reader_task' = EndTask("returned")
    /\ UNCHANGED <<vpc, pipe_task, subproc_task, proc, local_sock, ssh_sock, peer,
                   ws, session, loopStopped, logs, bind_port, inUse, counters,
                   cfgDir, file>>
    /\ UNCHANGED streams
    /\ UNCHANGED faults
    /\ PipeFrame

\* sock_recv raises OSError, the connection having been reset: no except
\* clause of handle_ssh_sock matches and the task ends with the exception.
ReaderRecvFails ==
    /\ ssh_reader_task.pc = "recv" /\ ~ssh_reader_task.must_cancel
    /\ peer = "closed"
    /\ ssh_reader_task' = EndTask("OSError")
    /\ faults' = faults \cup {"sock_recv"}
    /\ UNCHANGED <<vpc, pipe_task, subproc_task, proc, local_sock, ssh_sock, peer,
                   ws, session, loopStopped, logs, bind_port, inUse, counters,
                   cfgDir, file>>
    /\ UNCHANGED streams
    /\ PipeFrame

\* CancelledError at sock_recv: "except asyncio.CancelledError: break".
ReaderCancelled ==
    /\ ssh_reader_task.pc = "recv" /\ ssh_reader_task.must_cancel
    /\ ssh_reader_task' = EndTask("returned")
    /\ UNCHANGED <<vpc, pipe_task, subproc_task, proc, local_sock, ssh_sock, peer,
                   ws, session, loopStopped, logs, bind_port, inUse, counters,
                   cfgDir, file>>
    /\ UNCHANGED streams
    /\ UNCHANGED faults
    /\ PipeFrame

\* The server is told to stop (a signal, or loop.stop()): the finally
\* clause of serve_proxy cancels the pipe task if it is not done and awaits
\* it.  Cancelling a task that awaits another task cancels that one.
ServeProxyExit ==
    /\ vpc = "serving"
    /\ pipe_task.pc # "bind"
    /\ IF ~Pending(pipe_task)
       THEN vpc' = "exited" /\ UNCHANGED <<pipe_task, subproc_task, ssh_reader_task>>
       ELSE /\ vpc' = "await_pipe"
            /\ IF pipe_task.pc = "await_subproc" /\ Pending(subproc_task)
               THEN /\ subproc_task' = Cancel(subproc_task)
                    /\ UNCHANGED <<pipe_task, ssh_reader_task>>
               ELSE IF pipe_task.pc = "await_reader" /\ Pending(ssh_reader_task)
               THEN /\ ssh_reader_task' = Cancel(ssh_reader_task)
                    /\ UNCHANGED <<pipe_task, subproc_task>>
               ELSE /\ pipe_task' = Cancel(pipe_task)
                    /\ UNCHANGED <<subproc_task, ssh_reader_task>>
    /\ UNCHANGED <<proc, local_sock, ssh_sock, peer, ws, session, loopStopped, logs,
                   bind_port, inUse, counters, cfgDir, file>>
    /\ UNCHANGED streams
    /\ UNCHANGED faults
    /\ PipeFrame

\* "await pipe_task" in serve_proxy is over.
ServeProxyAwaited ==
    /\ vpc = "await_pipe"
    /\ ~Pending(pipe_task)
    /\ vpc' = "exited"
    /\ UNCHANGED <<pipe_task, subproc_task, ssh_reader_task, proc, local_sock,
                   ssh_sock, peer, ws, session, loopStopped, logs, bind_port,
                   inUse, counters, cfgDir, file>>
    /\ UNCHANGED streams
    /\ UNCHANGED faults
    /\ PipeFrame

NextPipe ==
    \/ ServeProxyEnter
    \/ PipeGetPort
    \/ PipeNoFreePort
    \/ PipeCancelledBeforeStart
    \/ EnvPortBound
    \/ EnvPortReleased
    \/ PipeBindFails
    \/ PipeBindOk
    \/ PipeWsConnected
    \/ PipeWsConnectFails
    \/ PipeCancelledConnecting
    \/ PipeSleepDone
    \/ PipeAccepted
    \/ PipeWsBinary
    \/ PipeSent
    \/ PipeSendFails
    \/ PipeWsClosed
    \/ PipeWsError
    \/ PipeCancelledInWs
    \/ PipeWsCloseDone
    \/ PipeCancelledClosing
    \/ PipeSubprocAwaited
    \/ PipeReaderAwaited
    \/ PipeCleanupCancelled
    \/ SubprocStart
    \/ SubprocSpawned
    \/ SubprocSpawnFails
    \/ SubprocWaitDone
    \/ SubprocCancelled
    \/ SshConnects
    \/ SshCloses
    \/ SshExits
    \/ ReaderStart
    \/ ReaderRecv
    \/ ReaderEof
    \/ ReaderRecvFails
    \/ ReaderCancelled
    \/ ServeProxyExit
    \/ ServeProxyAwaited

SpecPipe == InitPipe /\ [][NextPipe]_vars

\* The event loop runs every task whose await is over.  What the awaits
\* wait for from outside is not promised: that the SSH client connects,
\* sends or exits, that the server sends a message, that a signal stops
\* the server.  loop.stop() does end the serving.
PipeSteps ==
    \/ PipeGetPort \/ PipeNoFreePort \/ PipeCancelledBeforeStart
    \/ PipeBindFails \/ PipeBindOk
    \/ PipeWsConnected \/ PipeWsConnectFails \/ PipeCancelledConnecting
    \/ PipeSleepDone \/ PipeAccepted \/ PipeSent \/ PipeSendFails
    \/ PipeCancelledInWs \/ PipeWsCloseDone \/ PipeCancelledClosing
    \/ PipeSubprocAwaited \/ PipeReaderAwaited \/ PipeCleanupCancelled

SubprocSteps ==
    \/ SubprocStart \/ SubprocSpawned \/ SubprocSpawnFails
    \/ SubprocWaitDone \/ SubprocCancelled

ReaderSteps == ReaderStart \/ ReaderEof \/ ReaderRecvFails \/ ReaderCancelled

ServeSteps ==
    \/ ServeProxyEnter
    \/ (loopStopped /\ ServeProxyExit)
    \/ ServeProxyAwaited

SpecPipeLive ==
    /\ InitPipe /\ [][NextPipe]_vars
    /\ WF_vars(PipeSteps) /\ WF_vars(SubprocSteps)
    /\ WF_vars(ReaderSteps) /\ WF_vars(ServeSteps)

-----------------------------------------------------------------------------
(* Properties of the tunnel pipe *)

\* The bind of the listening socket failed.
BindFailed == "Cannot bind" \in logs

\* C10: once the bind of the listener to the port of the remote has
\* failed, the pipe task is over, having returned; the bind was tried once,
\* with that port only; no WebSocket was opened and no subprocess spawned.
C10_BindFailureTerminates ==
    BindFailed =>
        /\ pipe_task.pc = "done" /\ pipe_task.outcome = "returned"
        /\ binds = 1
        /\ portsTried = {bind_port}
        /\ bind_port = Lookup(LoadProxyPortMap(cfgDir, file), PipeRemoteKey)
        /\ wsConnects = 0 /\ ws = "none"
        /\ spawns = 0 /\ proc = "none" /\ subproc_task = NoTask
        /\ session = "closed" /\ loopStopped

\* The bind failed on the port the table holds for the remote, and the
\* pipe is over.
C10_Witness ==
    /\ BindFailed
    /\ bind_port \in inUse
    /\ pipe_task.pc = "done"
    /\ binds = 1

\* The states of the pipe, by the await it is at.
AwaitingLocalConnection == pipe_task.pc \in {"sleep", "accept"}

Piping == pipe_task.pc \in {"receive", "sendall"}

Closing == pipe_task.pc \in {"ws_close", "await_subproc", "await_reader"}

Terminated == pipe_task.pc = "done"

\* C11: whenever the SSH subprocess has exited with the pipe awaiting the
\* local connection or piping, the pipe ends, and ends with the accepted
\* socket, if there is one, and the WebSocket closed.
C11_SubprocExitTerminates ==
    (proc = "exited" /\ (pipe_task.pc = "accept" \/ Piping))
        ~> (Terminated /\ ssh_sock # "open" /\ ws = "closed")

\* handle_ssh_sock has left its loop on a zero-length read.
ReaderSawEof == Piping /\ ssh_reader_task.outcome = "returned"

\* The loop over the messages of ws has ended on a close or error message.
WsEnded == pipe_task.pc = "ws_close" /\ pipe_task.leaving = "break"

\* C12: while piping, a zero-length read on the accepted socket leads to
\* the end of the pipe, as a close or error message of the WebSocket does.
C12_EitherDirectionEnds ==
    /\ ReaderSawEof ~> Terminated
    /\ WsEnded ~> Terminated

\* pipe() has run: its first step makes the session.
PipeStarted == session # "none"

\* The cleanup of the finally clause is complete.
CleanedUp == ssh_sock # "open" /\ session = "closed" /\ loopStopped

\* C13: at whatever await a cancellation is delivered to pipe(), the awaits
\* of its finally clause included, the pipe task ends with the accepted
\* socket closed, the session closed and the event loop stopped.
C13_CancellationCleansUp == (Terminated /\ PipeStarted) => CleanedUp

\* C14: when serve_proxy has finished its shutdown, the pipe task, the
\* task of handle_subproc and the task of handle_ssh_sock are all over.
C14_NoTaskLeftRunning ==
    vpc = "exited" =>
        /\ ~Pending(pipe_task)
        /\ ~Pending(subproc_task)
        /\ ~Pending(ssh_reader_task)

\* create_subprocess_exec has raised: handle_subproc is over with no
\* subprocess made, and not because pipe() cancelled it.
SpawnFailed ==
    /\ subproc_task.pc = "done" /\ proc = "none"
    /\ AwaitingLocalConnection

\* C15: when the spawn of the SSH client has failed, the pipe ends.
C15_SpawnFailureTerminates == SpawnFailed ~> Terminated

\* a is a leading part of b.
IsPrefix(a, b) == Len(a) <= Len(b) /\ \A i \in 1..Len(a) : a[i] = b[i]

\* C16: the bytes sent to the WebSocket peer are a leading part of the
\* bytes read from the accepted socket, and the bytes written to the
\* accepted socket are a leading part of the bytes of the BINARY messages
\* received.
C16_ForwardedInOrder == IsPrefix(wsOut, sockIn) /\ IsPrefix(sockOut, wsIn)

\* Two chunks that differ went each way, and arrived whole.
C16_Witness ==
    /\ wsOut = <<2, 3, 1>> /\ sockIn = wsOut
    /\ sockOut = <<1, 2, 3>> /\ wsIn = sockOut

\* C17: when the pipe task is over, the listener it bound, the socket it
\* accepted and the WebSocket it opened are all closed.
C17_ReleasedTogether ==
    Terminated =>
        /\ local_sock # "listening"
        /\ ssh_sock # "open"
        /\ ws # "open"

\* What the except clause that handles a fault gives to logger.error.
LogOf(fault) ==
    CASE fault = "bind" -> "Cannot bind"
      [] fault = "ws_connect" -> "Connection error!"
      [] fault = "ws" -> "Server disconnected unexpectedly."
      [] fault = "create_subprocess_exec" -> "Unexpected error! (handle_subproc)"
      [] fault = "sock_recv" -> "Unexpected error! (handle_ssh_sock)"
      [] OTHER -> "Unexpected error!"

\* C18: when the pipe task is over, every fault that was raised in it, in
\* handle_subproc or in handle_ssh_sock has been logged, and the cleanup
\* was done.
C18_NoFaultSwallowed ==
    (Terminated /\ faults # {}) =>
        /\ \A fault \in faults : LogOf(fault) \in logs
        /\ CleanedUp

\* ws_connect has raised, or an ERROR message has arrived.
TransportError == "ws_connect" \in faults \/ "ws" \in faults

\* C19: the WebSocket is connected to once at most; a failure to connect
\* is logged and ends the pipe task with the ClientError; an ERROR message
\* is logged; and the pipe task that ends after either has closed what it
\* opened: listener, accepted socket, WebSocket, session, event loop.
C19_TransportErrorTerminates ==
    /\ wsConnects <= 1
    /\ "ws_connect" \in faults =>
            /\ Terminated /\ pipe_task.outcome = "ClientError"
            /\ LogOf("ws_connect") \in logs
    /\ "ws" \in faults => LogOf("ws") \in logs
    /\ (Terminated /\ TransportError) =>
            /\ CleanedUp
            /\ local_sock # "listening" /\ ws # "open"

\* The listener has been bound and put to listen (it is closed only after
\* the accept), and the WebSocket has been opened.
ListenerUp == local_sock \in {"listening", "closed"} /\ "bind" \notin faults

TunnelOpened == ws \in {"open", "closed"} /\ "ws_connect" \notin faults

\* C27: the SSH subprocess is spawned, and its watcher task started, only
\* after the local listener is listening and the WebSocket connection has
\* been opened; when the connection fails no subprocess is ever spawned.
C27_SpawnAfterListenAndConnect ==
    /\ (subproc_task # NoTask \/ spawns > 0 \/ proc # "none") =>
           ListenerUp /\ TunnelOpened
    /\ "ws_connect" \in faults =>
           spawns = 0 /\ proc = "none" /\ subproc_task = NoTask
    /\ ws = "closed" => wsConnects > 0

\* The subprocess has just been spawned: the listener listens and the
\* WebSocket is open.
C27_Witness ==
    /\ spawns = 1 /\ proc = "running" /\ subproc_task.pc = "wait"
    /\ local_sock = "listening" /\ ws = "open" /\ peer = "none"

\* What a step may do to the listener: a connection is accepted only while
\* none has been accepted yet, and the accept closes the listener; a closed
\* listener stays closed; bytes are forwarded only with the listener closed.
ListenerUsedOnce ==
    /\ (ssh_sock' = "open" /\ ssh_sock # "open") =>
           (ssh_sock = "none" /\ local_sock = "listening" /\ local_sock' = "closed")
    /\ local_sock = "closed" => local_sock' = "closed"
    /\ streams' # streams => local_sock = "closed"

\* C28: the listener is single-use: at most one connection is accepted per
\* invocation, and in every state where bytes are being forwarded the
\* listener is already closed.
C28_ListenerSingleUse ==
    /\ [](Piping => (local_sock = "closed" /\ ssh_sock # "none"))
    /\ [][ListenerUsedOnce]_vars

\* Bytes have been forwarded in both directions and the pipe is piping.
C28_Witness ==
    /\ Piping /\ local_sock = "closed" /\ ssh_sock = "open"
    /\ wsOut # <<>> /\ sockOut # <<>>

\* Both sub-tasks of the pipe have finished (or were never started).
SubTasksOver == ~Pending(subproc_task) /\ ~Pending(ssh_reader_task)

\* C30: the accepted socket, the WebSocket and the client session are
\* closed only after the subprocess-watcher task and the reader task have
\* finished.
C30_ClosedAfterSubTasks ==
    (ssh_sock = "closed" \/ ws = "closed" \/ session = "closed") => SubTasksOver

\* A step of serve_proxy, of the pipe task or of one of its sub-tasks,
\* taken once the subprocess exists, leaves the subprocess as it is.
SubprocessLeftAlone ==
    (/\ proc # "none"
     /\ \/ vpc' # vpc
        \/ pipe_task' # pipe_task
        \/ subproc_task' # subproc_task
        \/ ssh_reader_task' # ssh_reader_task)
        => proc' = proc

\* C31: the pipe's cleanup never kills the SSH subprocess: the pipe and
\* serve_proxy cancel and await the watcher task only, and no step of
\* theirs changes whether the subprocess is running or has exited.
C31_CleanupKeepsSubprocess == [][SubprocessLeftAlone]_vars

\* The pipe is over and serve_proxy has exited, the watcher having been
\* cancelled, and the subprocess is still running.
C31_Witness ==
    /\ Terminated /\ vpc = "exited"
    /\ subproc_task.pc = "done" /\ "Unexpected error! (handle_subproc)" \in logs
    /\ faults = {}
    /\ proc = "running"

\* handle_ssh_sock calls ws.send_bytes(data) in this step.
SendBytesIssued == upstream' = upstream + 1

SendsOnlyWhileOpen == SendBytesIssued => ws # "closed"

\* C34: handle_ssh_sock issues no ws.send_bytes once the WebSocket has
\* been closed, whatever the interleaving of the pipe task and the reader.
C34_NoSendAfterClose == [][SendsOnlyWhileOpen]_vars

\* The pipe task has taken the Supervisor's CancelledError at an await of
\* its "async with" block, nothing having been logged before.
CancelledAlone ==
    /\ pipe_task.pc = "ws_close" /\ pipe_task.leaving = "cancelled"
    /\ logs = {} /\ faults = {}

\* C25: when the pipe is terminated by cancellation alone, with no fault in
\* any task, neither the pipe nor its subprocess watcher nor its reader
\* logs an error.
C25_CancellationLogsNothing ==
    [](CancelledAlone => [](faults = {} => logs = {}))

-----------------------------------------------------------------------------
(* One exchange: a response drawn from Responses, given to Client.request *)
(* and to Client.authorize.                                               *)

InitRequest ==
    /\ CliOff
    /\ PortMapOff
    /\ SearchOff
    /\ PipeOff
    /\ resp \in Responses
    /\ store \in {0, 1}
    /\ rpc = "start"
    /\ reqResult = NoReqResult
    /\ authResult = NoAuthResult

ClientRequest ==
    /\ rpc = "start"
    /\ reqResult' = Request(resp)
    /\ rpc' = "requested"
    /\ UNCHANGED <<resp, store, authResult>>
    /\ UNCHANGED <<cliVars, portVars, pipeVars>>

ClientAuthorize ==
    /\ rpc = "start"
    /\ authResult' = Authorize(store, resp)
    /\ rpc' = "authorized"
    /\ UNCHANGED <<resp, store, reqResult>>
    /\ UNCHANGED <<cliVars, portVars, pipeVars>>

ClientIdentity ==
    /\ rpc = "start"
    /\ authResult' = Identity(store, resp)
    /\ rpc' = "identity"
    /\ UNCHANGED <<resp, store, reqResult>>
    /\ UNCHANGED <<cliVars, portVars, pipeVars>>

ClientRemotes ==
    /\ rpc = "start"
    /\ authResult' = RemotesOf(store, resp)
    /\ rpc' = "remotes"
    /\ UNCHANGED <<resp, store, reqResult>>
    /\ UNCHANGED <<cliVars, portVars, pipeVars>>

\* uuid.uuid1().hex: an id the store has never held.
FreshToken == 2

\* "with client.authenticate() as url: ...", the block raising or not.
ClientAuthenticate ==
    /\ rpc = "start"
    /\ \E blockRaises \in BOOLEAN :
        LET a == Authenticate(store, FreshToken, resp, blockRaises) IN
        /\ authResult' = AuthResult(a.kind, <<>>, TRUE, FALSE)
        /\ store' = a.token
    /\ rpc' = "authenticated"
    /\ UNCHANGED <<resp, reqResult>>
    /\ UNCHANGED <<cliVars, portVars, pipeVars>>

NextRequest ==
    \/ ClientRequest
    \/ ClientAuthorize
    \/ ClientIdentity
    \/ ClientRemotes
    \/ ClientAuthenticate

SpecRequest == InitRequest /\ [][NextRequest]_vars


-----------------------------------------------------------------------------
(* Properties of one exchange *)

Triples == VersionParts \X VersionParts \X VersionParts

\* Lexicographic order on triples.
LexLe3(x, y) ==
    \/ x[1] < y[1]
    \/ x[1] = y[1] /\ x[2] < y[2]
    \/ x[1] = y[1] /\ x[2] = y[2] /\ x[3] <= y[3]

\* Component-wise order on triples.
EachLe3(x, y) == x[1] <= y[1] /\ x[2] <= y[2] /\ x[3] <= y[3]

LexInRange == {t \in Triples : LexLe3(<<0, 2, 0>>, t) /\ LexLe3(t, <<0, 4, 999>>)}

EachInRange == {t \in Triples : EachLe3(<<0, 2, 0>>, t) /\ EachLe3(t, <<0, 4, 999>>)}

\* The header texts of a set of triples.
TextsOf(ts) == {VersionText(t[1], t[2], t[3]) : t \in ts}

LexInTexts == TextsOf(LexInRange)

LexOutTexts == TextsOf(Triples \ LexInRange)

EachInTexts == TextsOf(EachInRange)

EachOutTexts == TextsOf(Triples \ EachInRange)

\* The response's version header is the text of a triple of ts.
HeaderIn(texts) == resp.version.present /\ resp.version.text \in texts

\* The request passed the version check.
Accepted == reqResult.raised # "ProtocolVersionError"

\* A response without a usable version header is refused with the body unread.
RefusedUnread == reqResult.raised = "ProtocolVersionError" /\ ~reqResult.bodyRead

\* C1 as stated: Client.request accepts a version triple iff it lies
\* between MIN_PROTOCOL_VERSION and MAX_PROTOCOL_VERSION component by
\* component, and refuses every other triple and an absent header with
\* ProtocolVersionError before the body is read.
C1_ElementwiseRange ==
    rpc = "requested" =>
        /\ HeaderIn(EachInTexts) => Accepted
        /\ HeaderIn(EachOutTexts) => RefusedUnread
        /\ ~resp.version.present => RefusedUnread

\* C1 amended: Client.request accepts a version triple iff it lies between
\* (0,2,0) and (0,4,999) in lexicographic order (Python's tuple order), and
\* refuses every other triple and an absent header with
\* ProtocolVersionError before the body is read.
C1_LexicographicRange ==
    rpc = "requested" =>
        /\ HeaderIn(LexInTexts) => Accepted
        /\ HeaderIn(LexOutTexts) => RefusedUnread
        /\ ~resp.version.present => RefusedUnread

\* The triple on which the two orders differ has been accepted.
C1_Witness ==
    /\ rpc = "requested"
    /\ HeaderIn({VersionText(0, 2, 1000)})
    /\ Accepted

\* The response carries the text of a compatible version triple.
CompatibleHeader == HeaderIn(LexInTexts)

\* The response is declared as JSON (with or without parameters).
JsonResponse == resp.ctype.present /\ Head(resp.ctype.text) = "application/json"

\* The POST was made and answered by a compatible JSON response.
Answered ==
    rpc = "authorized" /\ authResult.sent /\ CompatibleHeader /\ JsonResponse

\* text is user, "@", host, ":", port in decimal, and nothing else.
Carries(text, remote) ==
    LET u == Len(remote.user)
        h == Len(remote.host)
    IN  /\ Len(text) > u + h + 2
        /\ SubSeq(text, 1, u) = remote.user
        /\ text[u + 1] = "@"
        /\ SubSeq(text, u + 2, u + h + 1) = remote.host
        /\ text[u + h + 2] = ":"
        /\ ParseInt(SubSeq(text, u + h + 3, Len(text))) = [ok |-> TRUE, val |-> remote.port]

\* C2: a compatible JSON answer to the POST on remotes/{alias} is mapped by
\* Client.authorize to the server's remote (user, host and port unchanged)
\* for 200/authorized, to RemoteAliasError for 404/not-found and to
\* RemoteStateError for 500/connection-failure.
C2_AuthorizeMapping ==
    Answered /\ resp.body.isDict =>
        /\ resp.code = 200 /\ resp.body.success = "authorized" =>
              authResult.kind = "return" /\ Carries(authResult.value, resp.body.remote)
        /\ resp.code = 404 /\ resp.body.error = "not-found" =>
              authResult.kind = "RemoteAliasError"
        /\ resp.code = 500 /\ resp.body.error = "connection-failure" =>
              authResult.kind = "RemoteStateError"

\* An authorized remote has been returned.
C2_Witness ==
    /\ Answered /\ resp.code = 200 /\ resp.body.success = "authorized"
    /\ authResult.kind = "return"
    /\ resp.body.remote \in Remotes

\* C3: 410/expired-token and 404/token-not-found make authorize fail with
\* ExpiredTokenIdError, which an "except RemoteError" does not catch, while
\* 404/not-found fails with RemoteAliasError, which an
\* "except TokenIdError" does not catch.
C3_ExpiredIsNotNotFound ==
    Answered /\ resp.body.isDict =>
        /\ (\/ resp.code = 410 /\ resp.body.error = "expired-token"
            \/ resp.code = 404 /\ resp.body.error = "token-not-found") =>
              /\ authResult.kind = "ExpiredTokenIdError"
              /\ IsInstance(authResult.kind, "TokenIdError")
              /\ ~IsInstance(authResult.kind, "RemoteError")
              /\ ~IsInstance(authResult.kind, "RemoteAliasError")
        /\ resp.code = 404 /\ resp.body.error = "not-found" =>
              /\ authResult.kind = "RemoteAliasError"
              /\ ~IsInstance(authResult.kind, "TokenIdError")
              /\ ~IsInstance(authResult.kind, "ExpiredTokenIdError")

\* An authorize call answered 410/expired-token has failed.
C3_Witness ==
    /\ Answered /\ resp.code = 410 /\ resp.body.error = "expired-token"
    /\ authResult.kind = "ExpiredTokenIdError"

\* The response has no version header, an empty one, or the text of a
\* triple outside the supported range.
IncompatibleHeader ==
    ~resp.version.present \/ resp.version.text = <<>> \/ HeaderIn(LexOutTexts)

\* C29: the version check runs on every request and comes before every
\* status-based outcome: a response without a compatible version header
\* makes Client.request, and authorize, identity and remotes once they
\* have sent their request, fail with ProtocolVersionError, whatever its
\* status and body, and before the body is read.
C29_VersionCheckFirst ==
    IncompatibleHeader =>
        /\ rpc = "requested" => RefusedUnread
        /\ (rpc \in {"authorized", "identity", "remotes"} /\ authResult.sent) =>
              authResult.kind = "ProtocolVersionError" /\ ~authResult.bodyRead

\* authorize has been answered 410/expired-token as JSON by a server of
\* version 1000.0.0 and has failed with ProtocolVersionError.
C29_Witness ==
    /\ rpc = "authorized" /\ authResult.sent
    /\ HeaderIn({VersionText(1000, 0, 0)}) /\ JsonResponse
    /\ resp.code = 410 /\ resp.body.isDict /\ resp.body.error = "expired-token"
    /\ authResult.kind = "ProtocolVersionError"

\* The PUT was answered 202 by a compatible server with a body that has
\* next_url.
CeremonyBegun ==
    /\ VersionCheck(resp.version) = ""
    /\ resp.code = 202
    /\ resp.body.isDict /\ resp.body.error = "" /\ resp.body.success = ""

\* What a call of Client.authenticate does to the credential store.
StoredOnlyOnSuccess ==
    rpc' = "authenticated" =>
        /\ authResult'.kind # "return" => store' = store
        /\ ~CeremonyBegun => (authResult'.kind # "return" /\ store' = store)
        /\ authResult'.kind = "return" => store' = FreshToken

\* C32: Client.authenticate leaves the stored credential unchanged on
\* failure (no 202, an exception of the request, an exception of the
\* caller's block) and stores the fresh token id only when the block
\* completes normally.
C32_StoreUnchangedOnFailure == [][StoredOnlyOnSuccess]_vars

\* The block has raised after a 202 and the old token is still stored.
C32_Witness ==
    /\ rpc = "authenticated" /\ CeremonyBegun
    /\ authResult.kind = "BlockError"
    /\ store = 1

\* A token-dependent operation (authorize, identity, remotes) has been called.
TokenRead == rpc \in {"authorized", "identity", "remotes"}

\* C23: with no token in the credential store for the server URL, every
\* token-dependent operation fails with NoTokenIdError, a TokenIdError
\* that is no ExpiredTokenIdError, and without a request; with a token
\* stored none of them fails with NoTokenIdError.
C23_NoTokenIsNotExpired ==
    TokenRead =>
        /\ store = 0 =>
              /\ authResult.kind = "NoTokenIdError"
              /\ ~authResult.sent
              /\ IsInstance(authResult.kind, "TokenIdError")
              /\ ~IsInstance(authResult.kind, "ExpiredTokenIdError")
        /\ store # 0 => authResult.kind # "NoTokenIdError"

\* identity has been read with no token stored, the server being ready to
\* answer 410/expired-token.
C23_Witness ==
    /\ rpc = "identity" /\ store = 0
    /\ resp.code = 410 /\ resp.body.isDict /\ resp.body.error = "expired-token"
    /\ CompatibleHeader /\ JsonResponse
    /\ authResult.kind = "NoTokenIdError"

-----------------------------------------------------------------------------
(* cli.py: the authorize command, with the authenticate command it calls *)

\* Model bounds: fresh token ids, authorize POSTs and re-authentications
\* of one invocation.
MaxTokens == 3

MaxPosts == 3

MaxReauth == 3

OkVersion == [present |-> TRUE, text |-> VersionText(0, 4, 0)]

JsonCT == [present |-> TRUE, text |-> JsonType]

Payload == DictBody("", "", NoRemote)

\* What the server may answer to a request of the command: each documented
\* status/body pair as JSON with a compatible version, and one answer
\* without the version header.
CliResponses ==
    { [version |-> OkVersion, code |-> c, ctype |-> JsonCT, body |-> Payload] :
          c \in {200, 201, 202} }
    \cup { [version |-> OkVersion, code |-> 200, ctype |-> JsonCT,
            body |-> DictBody("", "authorized", r)] : r \in Remotes }
    \cup { [version |-> OkVersion, code |-> 404, ctype |-> JsonCT,
            body |-> DictBody(e, "", NoRemote)] : e \in {"not-found", "token-not-found"} }
    \cup { [version |-> OkVersion, code |-> 410, ctype |-> JsonCT,
            body |-> DictBody("expired-token", "", NoRemote)],
           [version |-> OkVersion, code |-> 412, ctype |-> JsonCT,
            body |-> DictBody("unfinished-authentication", "", NoRemote)],
           [version |-> OkVersion, code |-> 400, ctype |-> JsonCT,
            body |-> DictBody("duplicate-key", "", NoRemote)],
           [version |-> OkVersion, code |-> 500, ctype |-> JsonCT,
            body |-> DictBody("connection-failure", "", NoRemote)],
           [version |-> [present |-> FALSE, text |-> <<>>], code |-> 200,
            ctype |-> JsonCT, body |-> Payload],
           [version |-> [present |-> TRUE, text |-> VersionText(1000, 0, 0)],
            code |-> 410, ctype |-> JsonCT,
            body |-> DictBody("expired-token", "", NoRemote)],
           [version |-> [present |-> TRUE, text |-> <<"1">>], code |-> 200,
            ctype |-> JsonCT, body |-> Payload] }

\* main's handlers around args.function(args): these three exit through
\* parser.exit, every other exception leaves main as a traceback.
MainCatches(kind) ==
    \/ IsInstance(kind, "NoTokenIdError")
    \/ IsInstance(kind, "ExpiredTokenIdError")
    \/ IsInstance(kind, "ProtocolVersionError")

\* ProtocolVersionError.server_version_info as Client.request sets it: the
\* parsed tuple of an incompatible version, None (here <<>>) otherwise.
ServerVersionInfo(version) ==
    IF version.present /\ version.text # <<>> /\ ParseVersion(version.text).ok
    THEN ParseVersion(version.text).val
    ELSE <<>>

\* ProtocolVersionError.server_version, "v and '{0}.{1}.{2}'.format(*v)",
\* raises IndexError for a tuple of fewer than three numbers.
ServerVersionRaises(version) ==
    LET v == ServerVersionInfo(version) IN v # <<>> /\ Len(v) < 3

\* An exception of class kind leaves the command and reaches main, whose
\* handler of ProtocolVersionError formats the version of the last response.
Propagate(kind) ==
    IF kind = "ProtocolVersionError" /\ ServerVersionRaises(resp'.version)
    THEN raisedKind' = "IndexError" /\ cpc' = "crashed"
    ELSE /\ raisedKind' = kind
         /\ cpc' = IF MainCatches(kind) THEN "exited" ELSE "crashed"

\* Reading a payload key (next_url, team_type, ...) of the JSON body.
PayloadError(r) ==
    IF ~r.body.isDict THEN "TypeError"
    ELSE IF r.body.error # "" \/ r.body.success # "" THEN "KeyError"
    ELSE ""

InitCli ==
    /\ PortMapOff
    /\ SearchOff
    /\ PipeOff
    /\ resp = NoResponse
    /\ rpc = "off"
    /\ reqResult = NoReqResult
    /\ authResult = NoAuthResult
    /\ store \in {0, 1}
    /\ cpc = "authorize"
    /\ debug \in BOOLEAN
    /\ nextToken = 2
    /\ raisedKind = ""
    /\ printed = {}
    /\ posts = 0
    /\ reauths = 0
    /\ remoteErrSeen = FALSE
    /\ retriedAfterRemoteErr = FALSE
    /\ ceremonyDone \in IF store = 0 THEN {{}} ELSE {{}, {store}}
    /\ identified = {}
    /\ rejected = {}
    /\ command = "authorize" /\ argUser = <<>> /\ tunnel = FALSE /\ started = ""

\* authorize(), one turn of its while loop: client.authorize(alias) and the
\* except clauses around it.
CliAuthorize ==
    /\ cpc = "authorize"
    /\ posts < MaxPosts
    /\ \E r \in CliResponses :
        LET a == Authorize(store, r) IN
        /\ r.code = 412 => store \notin ceremonyDone
        /\ resp' = IF a.sent THEN r ELSE resp
        /\ authResult' = a
        /\ posts' = IF a.sent THEN posts + 1 ELSE posts
        /\ retriedAfterRemoteErr' = (retriedAfterRemoteErr \/ (a.sent /\ remoteErrSeen))
        /\ rejected' = IF IsInstance(a.kind, "TokenIdError")
                       THEN rejected \cup {store} ELSE rejected
        /\ IF a.kind = "return"
           THEN /\ cpc' = "returned"
                /\ UNCHANGED <<raisedKind, printed, reauths, remoteErrSeen>>
           ELSE IF IsInstance(a.kind, "RemoteError")
           THEN /\ printed' = printed \cup {"remote-error"}
                /\ remoteErrSeen' = TRUE
                /\ IF debug
                   THEN Propagate(a.kind)
                   ELSE cpc' = "authorize" /\ UNCHANGED raisedKind
                /\ UNCHANGED reauths
           ELSE IF IsInstance(a.kind, "TokenIdError")
           THEN /\ a.kind = "ExpiredTokenIdError" => reauths < MaxReauth
                /\ printed' = printed \cup {"authentication-required"}
                /\ reauths' = IF a.kind = "ExpiredTokenIdError"
                              THEN reauths + 1 ELSE reauths
                /\ cpc' = "auth_put"
                /\ UNCHANGED <<raisedKind, remoteErrSeen>>
           ELSE /\ Propagate(a.kind)
                /\ UNCHANGED <<printed, reauths, remoteErrSeen>>
    /\ UNCHANGED <<rpc, reqResult, store, debug, nextToken>>
    /\ UNCHANGED <<portVars, pipeVars, sshVars, ceremonyDone, identified>>

\* CliAuthPut leaving the credential store as it was.
CliAuthPutKeepsToken ==
    /\ cpc = "auth_put"
    /\ nextToken <= MaxTokens
    /\ \E r \in CliResponses :
        LET q == Request(r) IN
        /\ resp' = r
        /\ reqResult' = q
        /\ nextToken' = nextToken + 1
        /\ IF q.raised # ""
           THEN Propagate(q.raised) /\ UNCHANGED store
           ELSE IF r.code # 202
           THEN Propagate("AssertionError") /\ UNCHANGED store
           ELSE IF PayloadError(r) # ""
           THEN Propagate(PayloadError(r)) /\ UNCHANGED store
           ELSE /\ store' = store
                /\ cpc' = "auth_input"
                /\ UNCHANGED raisedKind
    /\ printed' = printed
    /\ UNCHANGED <<rpc, authResult, debug, posts, reauths, remoteErrSeen,
                   retriedAfterRemoteErr>>
    /\ UNCHANGED <<portVars, pipeVars, sshVars, ceremonyDone, identified, rejected>>

\* authenticate(): "with client.authenticate() as url: ..." with a fresh
\* token id; the token is stored when the block is left normally.
CliAuthPut ==
    /\ cpc = "auth_put"
    /\ nextToken <= MaxTokens
    /\ \E r \in CliResponses :
        LET q == Request(r) IN
        /\ resp' = r
        /\ reqResult' = q
        /\ nextToken' = nextToken + 1
        /\ IF q.raised # ""
           THEN Propagate(q.raised) /\ UNCHANGED store
           ELSE IF r.code # 202
           THEN Propagate("AssertionError") /\ UNCHANGED store
           ELSE IF PayloadError(r) # ""
           THEN Propagate(PayloadError(r)) /\ UNCHANGED store
           ELSE /\ store' = nextToken
                /\ cpc' = "auth_input"
                /\ UNCHANGED raisedKind
    /\ printed' = printed
    /\ UNCHANGED <<rpc, authResult, debug, posts, reauths, remoteErrSeen,
                   retriedAfterRemoteErr>>
    /\ UNCHANGED <<portVars, pipeVars, sshVars, ceremonyDone, identified, rejected>>

\* The user goes through the authentication in the browser, at the URL
\* the command has shown: the server completes the ceremony of the token.
UserAuthenticates ==
    /\ cpc = "auth_input"
    /\ store \notin ceremonyDone
    /\ ceremonyDone' = ceremonyDone \cup {store}
    /\ UNCHANGED <<identified, rejected, sshVars>>
    /\ UNCHANGED <<exchangeVars, store, cpc, debug, nextToken, raisedKind, printed,
                   posts, reauths, remoteErrSeen, retriedAfterRemoteErr>>
    /\ UNCHANGED <<portVars, pipeVars>>

\* input('Press return to continue')
CliAuthInput ==
    /\ cpc = "auth_input"
    /\ cpc' = "auth_identity"
    /\ UNCHANGED <<exchangeVars, store, debug, nextToken, raisedKind, printed,
                   posts, reauths, remoteErrSeen, retriedAfterRemoteErr>>
    /\ UNCHANGED <<portVars, pipeVars, sshVars, ceremonyDone, identified, rejected>>

\* client.identity inside authenticate's try: an unfinished ceremony is
\* printed and the loop starts over with a new token.
CliAuthIdentity ==
    /\ cpc = "auth_identity"
    /\ \E r \in CliResponses :
        LET q == IF store = 0 THEN ReqResult("NoTokenIdError", "", FALSE)
                 ELSE Request(r) IN
        /\ r.code = 412 => store \notin ceremonyDone
        /\ r.code = 200 => store \in ceremonyDone
        /\ resp' = r
        /\ reqResult' = q
        /\ IF q.raised = "UnfinishedAuthenticationError"
           THEN /\ printed' = printed \cup {"unfinished"}
                /\ cpc' = "auth_put"
                /\ UNCHANGED raisedKind
           ELSE /\ printed' = printed
                /\ IF q.raised # "" THEN Propagate(q.raised)
                   ELSE IF r.code # 200 THEN Propagate("AssertionError")
                   ELSE IF ParseMimetype(r.ctype.text) # JsonType
                   THEN Propagate("AssertionError")
                   ELSE IF PayloadError(r) # "" THEN Propagate(PayloadError(r))
                   ELSE cpc' = "auth_keys" /\ UNCHANGED raisedKind
        /\ identified' = IF cpc' = "auth_keys" THEN identified \cup {store}
                         ELSE identified
    /\ UNCHANGED <<rpc, authResult, store, debug, nextToken, posts, reauths,
                   remoteErrSeen, retriedAfterRemoteErr>>
    /\ UNCHANGED <<portVars, pipeVars, sshVars, ceremonyDone, rejected>>

\* PublicKeyDict.__contains__(fingerprint): one GET; 404/not-found is "not
\* in", any other answer is "in". "" when no exception leaves it.
KeyLookup(r) ==
    LET q == IF store = 0 THEN ReqResult("NoTokenIdError", "", FALSE)
             ELSE Request(r)
        error == IF ParseMimetype(r.ctype.text) = JsonType /\ r.body.isDict
                 THEN r.body.error ELSE ""
    IN  [raised |-> q.raised,
         found  |-> q.raised = "" /\ ~(r.code = 404 /\ error = "not-found")]

\* authenticate() after its loop, without a public key in ~/.ssh: it returns
\* to authorize's loop.
CliAuthNoKey ==
    /\ cpc = "auth_keys"
    /\ cpc' = "authorize"
    /\ UNCHANGED <<exchangeVars, store, debug, nextToken, raisedKind, printed,
                   posts, reauths, remoteErrSeen, retriedAfterRemoteErr>>
    /\ UNCHANGED <<portVars, pipeVars, sshVars, ceremonyDone, identified, rejected>>

\* authenticate() after its loop, with a public key in ~/.ssh:
\* "public_key.fingerprint not in client.public_keys".
CliAuthKeyLookup ==
    /\ cpc = "auth_keys"
    /\ \E r \in CliResponses :
        LET k == KeyLookup(r) IN
        /\ resp' = r
        /\ IF k.raised # "" THEN Propagate(k.raised)
           ELSE /\ cpc' = IF k.found THEN "authorize" ELSE "auth_prompt"
                /\ UNCHANGED raisedKind
    /\ UNCHANGED <<rpc, reqResult, authResult, store, debug, nextToken, printed,
                   posts, reauths, remoteErrSeen, retriedAfterRemoteErr>>
    /\ UNCHANGED <<portVars, pipeVars, sshVars, ceremonyDone, identified, rejected>>

\* "Would you register the public key (Y/n)?": the user's answer.
CliAuthPrompt ==
    /\ cpc = "auth_prompt"
    /\ \E register \in {"y", "n"} :
        cpc' = IF register # "n" THEN "auth_register" ELSE "authorize"
    /\ UNCHANGED <<exchangeVars, store, debug, nextToken, raisedKind, printed,
                   posts, reauths, remoteErrSeen, retriedAfterRemoteErr>>
    /\ UNCHANGED <<portVars, pipeVars, sshVars, ceremonyDone, identified, rejected>>

\* client.public_keys[fingerprint] = public_key: PublicKeyDict.__setitem__,
\* with the "fprint in self" lookup it makes on 400/duplicate-key, and
\* authenticate's "except ValueError" around it.
CliAuthRegister ==
    /\ cpc = "auth_register"
    /\ \E r \in CliResponses, r2 \in CliResponses :
        LET q == IF store = 0 THEN ReqResult("NoTokenIdError", "", FALSE)
                 ELSE Request(r)
            error == IF r.body.isDict THEN r.body.error ELSE ""
            k == KeyLookup(r2)
        IN
        /\ IF q.raised # ""
           THEN resp' = r /\ Propagate(q.raised) /\ printed' = printed
           ELSE IF r.code = 400 /\ error = "duplicate-key"
           THEN /\ resp' = r2
                /\ IF k.raised # "" THEN Propagate(k.raised) /\ printed' = printed
                   ELSE IF k.found
                   THEN cpc' = "authorize" /\ UNCHANGED <<raisedKind, printed>>
                   ELSE /\ printed' = printed \cup {"value-error"}
                        /\ IF debug THEN Propagate("ValueError")
                           ELSE cpc' = "authorize" /\ UNCHANGED raisedKind
           ELSE /\ resp' = r
                /\ printed' = printed
                /\ IF r.code = 201 THEN cpc' = "authorize" /\ UNCHANGED raisedKind
                   ELSE IF error = "" THEN Propagate("TypeError")
                   ELSE Propagate("AssertionError")
    /\ UNCHANGED <<rpc, reqResult, authResult, store, debug, nextToken,
                   posts, reauths, remoteErrSeen, retriedAfterRemoteErr>>
    /\ UNCHANGED <<portVars, pipeVars, sshVars, ceremonyDone, identified, rejected>>

NextCli ==
    \/ CliAuthorize
    \/ CliAuthPut
    \/ UserAuthenticates
    \/ CliAuthInput
    \/ CliAuthIdentity
    \/ CliAuthNoKey
    \/ CliAuthKeyLookup
    \/ CliAuthPrompt
    \/ CliAuthRegister

SpecCli == InitCli /\ [][NextCli]_vars

-----------------------------------------------------------------------------
(* Properties of the authorize command *)

\* C4: once client.authorize has failed with a RemoteError, the command has
\* reported it and sends no further authorize request in that invocation.
C4_NoRetryAfterRemoteError ==
    /\ remoteErrSeen => "remote-error" \in printed
    /\ ~retriedAfterRemoteErr

\* C5: the command re-authenticates after an expired session a bounded
\* number of times: it stops before it has used up the MaxReauth
\* re-authentications the model allows.
C5_ReauthBounded == reauths < MaxReauth

\* C20: whenever the credential store holds a token for the server URL, the
\* server has completed the authentication ceremony for that token.
C20_StoredTokenAuthenticated == store # 0 => store \in ceremonyDone

\* C21: when client.authorize has failed with UnfinishedAuthenticationError,
\* the authorize command does not start an authentication ceremony.
C21_NoReauthWhenUnfinished ==
    authResult.kind = "UnfinishedAuthenticationError" => cpc # "auth_put"

\* The last response the command has received fails the version check of
\* Client.request.
ProtocolErrorRaised ==
    resp # NoResponse /\ Request(resp).raised = "ProtocolVersionError"

\* C22: when a request of the authorize command or of the authentication
\* loop raises ProtocolVersionError, the error reaches main, which reports
\* it and exits, and no further request is sent.
C22_ProtocolErrorFatal ==
    /\ [](ProtocolErrorRaised =>
              cpc = "exited" /\ raisedKind = "ProtocolVersionError")
    /\ [][ProtocolErrorRaised =>
              resp' = resp /\ posts' = posts /\ nextToken' = nextToken]_vars

\* An authorize call of the command has just failed with a TokenIdError.
TokenFailure ==
    /\ cpc = "authorize"
    /\ IsInstance(authResult'.kind, "TokenIdError")
    /\ <<authResult, posts>>' # <<authResult, posts>>

\* authenticate() returns to its caller.
AuthenticateReturns ==
    /\ cpc \in {"auth_keys", "auth_prompt", "auth_register"}
    /\ cpc' \notin {"auth_keys", "auth_prompt", "auth_register"}
    /\ raisedKind' = ""

\* An authorize POST that follows a token failure of the invocation.
RetrySent == posts' = posts + 1 /\ rejected # {}

ReauthenticateAndRetry ==
    /\ TokenFailure => (cpc' = "auth_put" /\ store' = store)
    /\ AuthenticateReturns => (cpc' = "authorize" /\ store' = store)
    /\ RetrySent => (store # 0 /\ store \in identified /\ store \notin rejected)

\* C33: after a token failure of authorize the command re-authenticates and
\* goes back to the authorize call, and every authorize request sent after
\* such a failure carries a stored token for which client.identity has
\* returned, never a token an earlier authorize call failed on.
C33_RetryUsesNewToken == [][ReauthenticateAndRetry]_vars

\* The stored token was reported expired, the command authenticated anew
\* and the second authorize request, sent with the new token, succeeded.
C33_Witness ==
    /\ cpc = "returned" /\ posts = 2 /\ reauths = 1
    /\ rejected = {1} /\ store = 2 /\ store \in identified
    /\ authResult.kind = "return"

-----------------------------------------------------------------------------
(* cli.py: the ssh and scp commands.  They call Client.remote and          *)
(* Client.ssh_proxy, which client.py does not define; the two are modelled *)
(* from the specification's control flow: the first resolves an alias to   *)
(* the remote's {user, host, port}, the second starts the tunnel.          *)

\* The remote the server has registered under the alias.
RegisteredRemote == [user |-> <<"root">>, host |-> <<"h1">>, port |-> 22]

\* The user part of the remote argument, REMOTE_PATTERN's group 'user':
\* absent, the registered user, another user.
ArgUsers == {<<>>, <<"root">>, <<"ann">>}

\* client.remote(alias, quiet=True): one GET with the stored token, which
\* fails as the GET of Client.remotes does; on 200 it returns
\* RegisteredRemote.
ClientRemote(token, r) == RemotesOf(token, r)

\* An invocation by a user who has authenticated before, without --debug.
InitSsh ==
    /\ PortMapOff
    /\ SearchOff
    /\ PipeOff
    /\ resp = NoResponse
    /\ rpc = "off"
    /\ reqResult = NoReqResult
    /\ authResult = NoAuthResult
    /\ store = 1
    /\ cpc = "lookup"
    /\ debug = FALSE
    /\ nextToken = 2
    /\ raisedKind = ""
    /\ printed = {}
    /\ posts = 0
    /\ reauths = 0
    /\ remoteErrSeen = FALSE
    /\ retriedAfterRemoteErr = FALSE
    /\ ceremonyDone = {store}
    /\ identified = {}
    /\ rejected = {}
    /\ command \in {"ssh", "scp"}
    /\ argUser \in ArgUsers
    /\ tunnel \in BOOLEAN
    /\ started = ""

\* ssh() and scp() up to their if statement: "remote = client.remote(alias,
\* quiet=True)", then either the user of the argument overrides the
\* remote's or authorize.call(args, alias=alias) is made.  scp reads the
\* name remote_info, which is not bound, when a user was given.
CmdLookup ==
    /\ cpc = "lookup"
    /\ \E r \in CliResponses :
        LET a == ClientRemote(store, r) IN
        /\ resp' = IF a.sent THEN r ELSE resp
        /\ IF a.kind # "return" THEN Propagate(a.kind)
           ELSE IF argUser = <<>>
           THEN cpc' = "authorize" /\ UNCHANGED raisedKind
           ELSE IF command = "scp" THEN Propagate("NameError")
           ELSE /\ cpc' = IF argUser # RegisteredRemote.user THEN "run" ELSE "authorize"
                /\ UNCHANGED raisedKind
    /\ UNCHANGED <<rpc, reqResult, authResult, store, debug, nextToken, printed,
                   posts, reauths, remoteErrSeen, retriedAfterRemoteErr>>
    /\ UNCHANGED <<portVars, pipeVars, sshVars, ceremonyDone, identified, rejected>>

\* The end of ssh() and scp(): client.ssh_proxy(template, remote, alias)
\* with --tunnel, subprocess.call of the resolved template without.  What
\* authorize returned is the string Client.authorize formats, which the
\* template cannot be resolved from ('user@host:port'['user']).
CmdRun ==
    /\ command \in {"ssh", "scp"}
    /\ cpc \in {"run", "returned"}
    /\ IF tunnel
       THEN started' = "tunnel" /\ cpc' = "done" /\ UNCHANGED raisedKind
       ELSE IF cpc = "returned"
       THEN Propagate("TypeError") /\ UNCHANGED started
       ELSE started' = command /\ cpc' = "done" /\ UNCHANGED raisedKind
    /\ UNCHANGED <<exchangeVars, store, debug, nextToken, printed, posts, reauths,
                   remoteErrSeen, retriedAfterRemoteErr, command, argUser, tunnel>>
    /\ UNCHANGED <<portVars, pipeVars, ceremonyDone, identified, rejected>>

NextSsh ==
    \/ CmdLookup
    \/ CmdRun
    \/ CliAuthorize
    \/ CliAuthPut
    \/ UserAuthenticates
    \/ CliAuthInput
    \/ CliAuthIdentity
    \/ CliAuthNoKey
    \/ CliAuthKeyLookup
    \/ CliAuthPrompt
    \/ CliAuthRegister

SpecSsh == InitSsh /\ [][NextSsh]_vars

\* C35: whatever the remote argument, ssh and scp start the SSH or SCP
\* client or the tunnel only after client.authorize has returned an
\* authorization in this invocation.
C35_AuthorizedBeforeStart == started # "" => authResult.kind = "return"

=============================================================================
